---- MODULE Spec2Model ----
(***************************************************************************)
(* Session archive scanner of codex-launch-cli (src/src/sessions.rs,       *)
(* src/src/config.rs): the record extractor, the newest-first log scanner, *)
(* the query filters and the repository-root walk.                         *)
(*                                                                         *)
(* Conventions.  An Option is a sequence of length 0 (None) or 1 (Some).   *)
(* A text is a sequence of tokens: the four whitespace characters, the     *)
(* four boilerplate markers (each marker string is one token) and ordinary *)
(* words.  A path is the sequence of its components.  A directory or file  *)
(* name is the sequence of its characters, each an integer code whose      *)
(* order is the byte order of the character it stands for.                 *)
(***************************************************************************)
EXTENDS Integers, Sequences, FiniteSets, TLC

VARIABLES
    \* read_session_meta
    lines,      \* the file being read: [openable, lines]
    taken,      \* lines consumed from reader.lines().take(300)
    locals,     \* created_at, id, cwd, ..., first_user_text, best_user_text
    rpc,        \* position in read_session_meta
    ret         \* its return value

VARIABLES
    \* shared by the filter and the scanner
    cfg,        \* Config: projects.paths, projects.roots
    env,        \* the machine: home directory, directories holding a .git entry
    filter,     \* Filter: [kind, arg]
    \* matches_filter and find_git_root
    cwd,        \* the cwd tested
    cur,        \* find_git_root: cur
    hops,       \* find_git_root: iterations of `for _ in 0..25` begun
    mpc,        \* position in matches_filter
    accepted    \* its result

VARIABLES
    \* list_recent_sessions
    corpus,     \* the sessions directory: [root, entries]
    limit,      \* the query's limit
    stack,      \* the iterators of the nested for loops, outermost first
    items,      \* items
    spc,        \* position in list_recent_sessions
    sret,       \* its return value
    listed,     \* history: the directories read with fs::read_dir, in order
    opened      \* history: the files given to read_session_meta, in order

VARIABLES
    \* find_session_by_id
    id,         \* the id looked for
    fstack,     \* the iterators of the nested for loops, outermost first
    fpc,        \* position in find_session_by_id
    fret,       \* its return value
    fopened     \* history: the files given to read_session_meta, in order

VARIABLES
    \* pick_project_inner
    targets,                    \* targets
    sessions_scoped,            \* sessions_scoped
    sessions_all,               \* sessions_all
    per_project_limit,          \* per_project_limit
    view,                       \* View: [kind, target, sessions]
    project_filter,
    project_cursor,
    sessions_filter,
    sessions_cursor,
    project_sessions_filter,
    project_sessions_cursor,
    upc,                        \* position in the loop: "render", "poll", "done"
    pick,                       \* the value returned: None while the loop runs
    keys,                       \* the terminal: [free, script], the keys to come
    kpos,                       \* keys of the script already read
    ev,                         \* the key read in this iteration of the loop, if any
    entry,                      \* history: Projects filter and cursor at drill-down entry
    sizes,                      \* the terminal: the heights terminal::size() may report
    frame                       \* history: the list window of the last frame rendered

VARIABLES
    \* pick_project and TerminalGuard
    no_alt,     \* the environment sets CODEX_LAUNCH_NO_ALT_SCREEN or ZELLIJ
    term,       \* the terminal: [raw, alt, hidden]
    guard,      \* _guard: None until TerminalGuard::enter returns Ok
    err         \* the error pick_project returns, if any

VARIABLES
    \* launch_by_query and resume_by_query
    qkind,      \* "target" for launch_by_query, "session" for resume_by_query
    scored,     \* scored: (score, item) pairs
    options,    \* the options handed to ui::pick_target or ui::pick_session, if any
    qpc,        \* position in the quick action
    qret        \* the candidate chosen, or the error

VARIABLES
    \* gather_targets
    gcfg,       \* cfg.projects: [paths, roots, from_sessions]
    disk,       \* the file system: [dirs, files, repos, unreadable]
    scanned,    \* what list_recent_sessions(cfg, All { limit }) returns
    map,        \* map: BTreeMap<PathBuf, ProjectTarget>
    gpc,        \* position in gather_targets
    gi,         \* elements of the current for loop already taken
    gret        \* its return value

rdVars == <<lines, taken, locals, rpc, ret>>
mfVars == <<cwd, cur, hops, mpc, accepted>>
quickVars == <<qkind, scored, options, qpc, qret>>
gatherVars == <<gcfg, disk, scanned, map, gpc, gi, gret>>
\* what no step of the extractor, the filter, the scanner or the picker writes
qVars == <<cfg, env, filter, quickVars, gatherVars>>
scVars == <<corpus, limit, stack, items, spc, sret, listed, opened>>
fdVars == <<id, fstack, fpc, fret, fopened>>
inVars == <<targets, sessions_scoped, sessions_all, per_project_limit, keys, sizes>>
uiVars == <<inVars, view, project_filter, project_cursor, sessions_filter,
            sessions_cursor, project_sessions_filter, project_sessions_cursor,
            upc, pick, kpos, ev, entry, frame, no_alt, term, guard, err>>
vars == <<rdVars, qVars, mfVars, scVars, fdVars, uiVars>>

(***************************************************************************)
(* Bounds of the model.                                                    *)
(***************************************************************************)
\* Most log files in a corpus.
MaxFiles == 3
\* Largest limit of a query.
MaxLimit == 2
\* Longest file (in lines) built from every sample line.
MaxShort == 3
\* Longest file (in lines) built from the core sample lines.
MaxLines == 4
\* The line cap of reader.lines().take(300), scaled so that files longer
\* than the cap are among the inputs.
LineCap == 3
\* Characters a filter text holds at most while the keys are free
MaxFilter == 1
\* The greatest per-project limit of the drill-down
MaxPerProject == 2

\* Most candidates a quick action scores: more than either prompt shows
MaxCandidates == 21

\* Most log files in a corpus walked by both list and find_by_id
MaxWalkFiles == 2

\* Most sessions the scan hands to gather_targets
MaxScanned == 3

\* Longest text of a user message whose characters are free
MaxText == 5

\* Greatest height the terminal reports
MaxRows == 8

\* for _ in 0..25
GitWalkLimitOffByOne == 25 + 1

GitWalkLimit == 25

(***************************************************************************)
(* Option and Result                                                       *)
(***************************************************************************)
None == <<>>
Some(x) == <<x>>
or_else(o, alt) == IF o # None THEN o ELSE alt

Err == [ok |-> FALSE, val |-> None]
Ok(v) == [ok |-> TRUE, val |-> v]

Min(a, b) == IF a <= b THEN a ELSE b

\* Input sets
SeqsUpTo(S, n) == UNION {[1..k -> S] : k \in 0..n}
SubsetsUpTo(S, n) == {T \in SUBSET S : Cardinality(T) <= n}

\* A file fs::File::open fails on
Unopenable == [openable |-> FALSE, lines |-> <<>>]

(***************************************************************************)
(* Text helpers: str::trim, trim_start, replace, lines                     *)
(***************************************************************************)
\* char::is_whitespace: space, tab, line feed, carriage return, and the
\* others, of which the form feed stands in the model
WS == {"SP", "TAB", "LF", "CR", "FF"}

RECURSIVE trim_start(_)
trim_start(s) ==
    IF s # <<>> /\ Head(s) \in WS THEN trim_start(Tail(s)) ELSE s

RECURSIVE trim_end(_)
trim_end(s) ==
    IF s # <<>> /\ s[Len(s)] \in WS THEN trim_end(SubSeq(s, 1, Len(s) - 1)) ELSE s

trim(s) == trim_end(trim_start(s))

starts_with(s, tok) == s # <<>> /\ Head(s) = tok

contains(s, tok) == \E i \in 1..Len(s) : s[i] = tok

\* s.replace(from, to) for a one-character pattern
replace_char(s, from, to) == [i \in 1..Len(s) |-> IF s[i] = from THEN to ELSE s[i]]

\* s.replace("\r\n", "\n")
RECURSIVE replace_crlf(_)
replace_crlf(s) ==
    IF s = <<>> THEN <<>>
    ELSE IF Len(s) >= 2 /\ s[1] = "CR" /\ s[2] = "LF"
         THEN <<"LF">> \o replace_crlf(SubSeq(s, 3, Len(s)))
         ELSE <<s[1]>> \o replace_crlf(Tail(s))

\* str::lines after the replacements (no CR is left): split at LF; a final
\* empty piece is not a line.
RECURSIVE split_lines(_, _)
split_lines(s, piece) ==
    IF s = <<>> THEN (IF piece = <<>> THEN <<>> ELSE <<piece>>)
    ELSE IF Head(s) = "LF" THEN <<piece>> \o split_lines(Tail(s), <<>>)
         ELSE split_lines(Tail(s), Append(piece, Head(s)))

RECURSIVE find_non_blank(_)
find_non_blank(ls) ==
    IF ls = <<>> THEN <<>>
    ELSE IF trim(Head(ls)) # <<>> THEN Head(ls) ELSE find_non_blank(Tail(ls))

normalize_summary_untrimmed(s) ==
    LET s1 == replace_char(s, "TAB", "SP")
        s2 == replace_char(replace_crlf(s1), "CR", "LF")
        first_line == find_non_blank(split_lines(s2, <<>>))
    IN  first_line

normalize_summary(s) ==
    LET s1 == replace_char(s, "TAB", "SP")
        s2 == replace_char(replace_crlf(s1), "CR", "LF")
        first_line == find_non_blank(split_lines(s2, <<>>))
    IN  trim(first_line)

looks_like_boilerplate(text) ==
    LET t == trim_start(text)
    IN  \/ starts_with(t, "# AGENTS.md instructions")
        \/ starts_with(t, "<environment_context>")
        \/ starts_with(t, "<user_shell_command>")
        \/ contains(t, "<INSTRUCTIONS>")

RECURSIVE first_text(_)
first_text(content) ==
    IF content = <<>> THEN None
    ELSE LET item == Head(content)
         IN  IF item.text # None /\ trim(item.text[1]) # <<>>
             THEN Some(trim(item.text[1]))
             ELSE first_text(Tail(content))

extract_text_from_message_payload(payload) ==
    IF payload.content = None THEN None ELSE first_text(payload.content[1])

(***************************************************************************)
(* read_session_meta: one line                                             *)
(***************************************************************************)
InitLocals ==
    [created_at |-> None, id |-> None, cwd |-> None, cli_version |-> None,
     model_provider |-> None, source |-> None,
     first_user_text |-> None, best_user_text |-> None]

\* Some("session_meta") => { ... }; ctl is "continue" where the arm leaves
\* the iteration with `continue`, "check" where it falls through to the
\* test that ends the loop early.
session_meta_arm(acc, v) ==
    LET acc1 == [acc EXCEPT !.created_at = or_else(@, v.timestamp)]
    IN  IF v.payload = None THEN [ctl |-> "continue", acc |-> acc1]
        ELSE LET payload == v.payload[1]
             IN  [ctl |-> "check",
                  acc |-> [acc1 EXCEPT !.id = payload.id,
                                       !.cwd = payload.cwd,
                                       !.cli_version = payload.cli_version,
                                       !.model_provider = payload.model_provider,
                                       !.source = payload.source]]

set_best_ignoring_boilerplate(best, text) ==
    IF best = None THEN text ELSE best

keep_last_user_text(best, text) ==
    IF ~looks_like_boilerplate(text[1]) THEN text ELSE best

\* if !looks_like_boilerplate(&text) && best_user_text.is_none() { ... }
set_best_user_text(best, text) ==
    IF ~looks_like_boilerplate(text[1]) /\ best = None THEN text ELSE best

\* Some("response_item") => { ... }
response_item_arm(acc, v) ==
    IF v.payload = None THEN [ctl |-> "continue", acc |-> acc]
    ELSE LET payload == v.payload[1]
         IN  IF payload.type # Some("message") THEN [ctl |-> "continue", acc |-> acc]
             ELSE IF payload.role # Some("user") THEN [ctl |-> "continue", acc |-> acc]
             ELSE LET text == extract_text_from_message_payload(payload)
                  IN  IF text = None THEN [ctl |-> "continue", acc |-> acc]
                      ELSE [ctl |-> "check",
                            acc |-> [acc EXCEPT
                                !.first_user_text = IF @ = None THEN text ELSE @,
                                !.best_user_text = set_best_user_text(@, text)]]

unparsable_line_fails(acc) == [ctl |-> "err", acc |-> acc]

\* let Ok(v) = serde_json::from_str::<Value>(trimmed) else { continue };
unparsable_line(acc) == [ctl |-> "continue", acc |-> acc]

\* The body of the loop up to the test that ends it early.
process_line(acc, line) ==
    IF line.kind = "ioerr" THEN [ctl |-> "err", acc |-> acc]
    ELSE IF line.kind = "blank" THEN [ctl |-> "continue", acc |-> acc]
    ELSE IF line.kind = "garbage" THEN unparsable_line(acc)
    ELSE IF line.type = Some("session_meta") THEN session_meta_arm(acc, line)
    ELSE IF line.type = Some("response_item") THEN response_item_arm(acc, line)
    ELSE [ctl |-> "check", acc |-> acc]

\* if id.is_some() && cwd.is_some() && best_user_text.is_some() { break; }
stop_early(acc) == acc.id # None /\ acc.cwd # None /\ acc.best_user_text # None

\* let summary = best_user_text.map(normalize_summary);
summary_of(acc) ==
    IF acc.best_user_text = None THEN None
    ELSE Some(normalize_summary(acc.best_user_text[1]))

\* The end of read_session_meta: None without id or cwd, else the item.
build_item(path, acc) ==
    IF acc.id = None \/ acc.cwd = None THEN Ok(None)
    ELSE Ok(Some([id |-> acc.id[1], created_at |-> acc.created_at,
                  cwd |-> acc.cwd[1], summary |-> summary_of(acc),
                  cli_version |-> acc.cli_version,
                  model_provider |-> acc.model_provider,
                  source |-> acc.source, path |-> path]))

\* for line_result in reader.lines().take(300) { ... }, from line n + 1 on
RECURSIVE read_loop(_, _, _)
read_loop(acc, ls, n) ==
    IF n >= Len(ls) \/ n >= LineCap THEN [ok |-> TRUE, acc |-> acc]
    ELSE LET r == process_line(acc, ls[n + 1])
         IN  IF r.ctl = "err" THEN [ok |-> FALSE, acc |-> acc]
             ELSE IF r.ctl = "check" /\ stop_early(r.acc) THEN [ok |-> TRUE, acc |-> r.acc]
             ELSE read_loop(r.acc, ls, n + 1)

\* read_session_meta(path) on a file [openable, lines]
read_session_meta(path, file) ==
    IF ~file.openable THEN Err
    ELSE LET r == read_loop(InitLocals, file.lines, 0)
         IN  IF ~r.ok THEN Err ELSE build_item(path, r.acc)

(***************************************************************************)
(* Paths, Config::is_scoped_target, find_git_root, matches_filter          *)
(***************************************************************************)
\* Path::starts_with: component-wise prefix
path_starts_with(p, base) ==
    Len(base) <= Len(p) /\ SubSeq(p, 1, Len(base)) = base

\* s.trim_start_matches("~/"): every leading "~/" is removed
RECURSIVE trim_start_tildes(_)
trim_start_tildes(p) ==
    IF Len(p) >= 2 /\ p[1] = "~" THEN trim_start_tildes(Tail(p)) ELSE p

\* config::normalize, with the home directory dirs::home_dir() gives
normalize(p, home) ==
    IF Len(p) >= 2 /\ p[1] = "~" /\ home # None
    THEN home[1] \o trim_start_tildes(p)
    ELSE IF p = <<"~">> THEN (IF home # None THEN home[1] ELSE p)
    ELSE p

is_scoped_target_paths_only(c, home, p) ==
    LET n == normalize(p, home)
    IN  \E i \in 1..Len(c.paths) : path_starts_with(n, c.paths[i])

is_scoped_target(c, home, p) ==
    LET n == normalize(p, home)
    IN  \/ \E i \in 1..Len(c.paths) : path_starts_with(n, c.paths[i])
        \/ \E i \in 1..Len(c.roots) : path_starts_with(n, c.roots[i])

\* dotgit.is_dir() || dotgit.is_file()
has_dotgit(markers, dir) == dir \in markers

\* PathBuf::pop: false (and no change) when the path has no parent
can_pop(p) == p # <<>> /\ p # <<"/">>
pop(p) == SubSeq(p, 1, Len(p) - 1)

\* find_git_root from the n-th iteration on, cur being the directory tested
RECURSIVE git_walk(_, _, _)
git_walk(markers, c, n) ==
    IF n >= GitWalkLimit THEN None
    ELSE IF has_dotgit(markers, c) THEN Some(c)
    ELSE IF ~can_pop(c) THEN None
    ELSE git_walk(markers, pop(c), n + 1)

find_git_root(markers, start) == git_walk(markers, start, 0)

matches_filter(c, e, f, p) ==
    CASE f.kind = "All" -> TRUE
      [] f.kind = "Scoped" -> is_scoped_target(c, e.home, p)
      [] f.kind = "ForCwd" -> path_starts_with(p, f.arg)
      [] f.kind = "ForRepoRoot" -> find_git_root(e.markers, p) = Some(f.arg)

(***************************************************************************)
(* Inputs of the filter                                                    *)
(***************************************************************************)
Home == <<"/", "home">>

SamplePaths ==
    {<<>>, <<"/">>, Home, <<"/", "home", "a">>, <<"/", "home", "a", "b">>,
     <<"/", "home", "b">>, <<"/", "a">>, <<"a">>, <<"a", "b">>,
     <<"~">>, <<"~", "a">>, <<"~", "a", "b">>, <<"~", "~", "a">>}

ConfiguredPaths ==
    {Home, <<"/", "home", "a">>, <<"/", "home", "b">>, <<"/", "a">>, <<"~", "a">>}

\* "/" followed by n components "d": a directory n levels below the root
Deep(n) == <<"/">> \o [i \in 1..n |-> "d"]

DeepStarts == {Deep(n) : n \in {0, 1, 23, 24, 25, 26}}
DeepDirs == {Deep(n) : n \in {0, 1, 2, 25}} \cup {<<"/", "e">>}

NoConfig == [paths |-> <<>>, roots |-> <<>>]

InitFilterInputs ==
    \/ /\ filter = [kind |-> "All", arg |-> <<>>]
       /\ cfg = NoConfig
       /\ env \in [home : {None, Some(Home)}, markers : {{}}]
       /\ cwd \in SamplePaths
    \/ /\ filter = [kind |-> "Scoped", arg |-> <<>>]
       /\ cfg \in [paths : SeqsUpTo(ConfiguredPaths, 2), roots : SeqsUpTo(ConfiguredPaths, 1)]
       /\ env \in [home : {None, Some(Home)}, markers : {{}}]
       /\ cwd \in SamplePaths
    \/ /\ filter \in [kind : {"ForCwd"}, arg : SamplePaths]
       /\ cfg = NoConfig
       /\ env = [home |-> Some(Home), markers |-> {}]
       /\ cwd \in SamplePaths
    \/ /\ filter \in [kind : {"ForRepoRoot"}, arg : SamplePaths]
       /\ cfg = NoConfig
       /\ env \in [home : {Some(Home)},
                   markers : SUBSET {<<>>, <<"/">>, <<"/", "home">>, <<"/", "home", "a">>, <<"a">>}]
       /\ cwd \in SamplePaths
    \/ /\ filter \in [kind : {"ForRepoRoot"}, arg : DeepDirs]
       /\ cfg = NoConfig
       /\ env \in [home : {Some(Home)}, markers : SubsetsUpTo(DeepDirs, 2)]
       /\ cwd \in DeepStarts

IdleQuery ==
    /\ cfg = NoConfig
    /\ env = [home |-> None, markers |-> {}]
    /\ filter = [kind |-> "All", arg |-> <<>>]

IdleFilter ==
    /\ cwd = <<>>
    /\ cur = <<>>
    /\ hops = 0
    /\ mpc = "idle"
    /\ accepted = FALSE

IdleScan ==
    /\ corpus = [root |-> "missing", entries |-> <<>>]
    /\ limit = 0
    /\ stack = <<>>
    /\ items = <<>>
    /\ spc = "idle"
    /\ sret = Err
    /\ listed = <<>>
    /\ opened = <<>>

IdleFind ==
    /\ id = ""
    /\ fstack = <<>>
    /\ fpc = "idle"
    /\ fret = Err
    /\ fopened = <<>>

IdlePicker ==
    /\ targets = <<>> /\ sessions_scoped = <<>> /\ sessions_all = <<>>
    /\ per_project_limit = 0
    /\ keys = [free |-> FALSE, script |-> <<>>]
    /\ view = [kind |-> "Projects", target |-> <<>>, sessions |-> <<>>]
    /\ project_filter = <<>> /\ project_cursor = 0
    /\ sessions_filter = <<>> /\ sessions_cursor = 0
    /\ project_sessions_filter = <<>> /\ project_sessions_cursor = 0
    /\ upc = "idle"
    /\ pick = <<>>
    /\ kpos = 0
    /\ ev = <<>>
    /\ entry = <<>>
    /\ sizes = {} /\ frame = <<>>
    /\ no_alt = FALSE
    /\ term = [raw |-> FALSE, alt |-> FALSE, hidden |-> FALSE]
    /\ guard = <<>>
    /\ err = <<>>

IdleGather ==
    /\ gcfg = [paths |-> <<>>, roots |-> <<>>, from_sessions |-> FALSE]
    /\ disk = [dirs |-> {}, files |-> {}, repos |-> {}, unreadable |-> {}]
    /\ scanned = [ok |-> FALSE, val |-> <<>>]
    /\ map = <<>>
    /\ gpc = "idle"
    /\ gi = 0
    /\ gret = [ok |-> FALSE, val |-> <<>>]

IdleQuick ==
    /\ qkind = "idle"
    /\ scored = <<>>
    /\ options = <<>>
    /\ qpc = "idle"
    /\ qret = [ok |-> FALSE, val |-> <<>>]

IdleExtract ==
    /\ lines = Unopenable
    /\ taken = 0
    /\ locals = InitLocals
    /\ rpc = "idle"
    /\ ret = Err

(***************************************************************************)
(* matches_filter as a process; find_git_root one iteration per step.      *)
(***************************************************************************)
InitFilter ==
    /\ InitFilterInputs
    /\ cur = <<>>
    /\ hops = 0
    /\ mpc = "match"
    /\ accepted = FALSE
    /\ IdleExtract /\ IdleScan /\ IdleFind /\ IdlePicker /\ IdleQuick /\ IdleGather

\* Filter::All, Filter::Scoped, Filter::ForCwd(root)
MatchDirect ==
    /\ mpc = "match" /\ filter.kind # "ForRepoRoot"
    /\ accepted' = matches_filter(cfg, env, filter, cwd)
    /\ mpc' = "done"
    /\ UNCHANGED <<qVars, fdVars, uiVars, cwd, cur, hops, rdVars, scVars>>

\* Filter::ForRepoRoot(repo_root): let mut cur = start.to_path_buf();
WalkStart ==
    /\ mpc = "match" /\ filter.kind = "ForRepoRoot"
    /\ cur' = cwd /\ hops' = 0
    /\ mpc' = "walk"
    /\ UNCHANGED <<qVars, fdVars, uiVars, cwd, accepted, rdVars, scVars>>

\* return Some(cur);  then  .is_some_and(|r| r == *repo_root)
WalkFound ==
    /\ mpc = "walk" /\ hops < GitWalkLimit
    /\ has_dotgit(env.markers, cur)
    /\ accepted' = (cur = filter.arg)
    /\ mpc' = "done"
    /\ UNCHANGED <<qVars, fdVars, uiVars, cwd, cur, hops, rdVars, scVars>>

\* cur.pop() succeeded
WalkUp ==
    /\ mpc = "walk" /\ hops < GitWalkLimit
    /\ ~has_dotgit(env.markers, cur)
    /\ can_pop(cur)
    /\ cur' = pop(cur) /\ hops' = hops + 1
    /\ UNCHANGED <<qVars, fdVars, uiVars, cwd, mpc, accepted, rdVars, scVars>>

\* if !cur.pop() { break; }  then  None
WalkNoParent ==
    /\ mpc = "walk" /\ hops < GitWalkLimit
    /\ ~has_dotgit(env.markers, cur)
    /\ ~can_pop(cur)
    /\ accepted' = FALSE
    /\ mpc' = "done"
    /\ UNCHANGED <<qVars, fdVars, uiVars, cwd, cur, hops, rdVars, scVars>>

\* the 25 iterations are used up: None
WalkGivesUp ==
    /\ mpc = "walk" /\ hops >= GitWalkLimit
    /\ accepted' = FALSE
    /\ mpc' = "done"
    /\ UNCHANGED <<qVars, fdVars, uiVars, cwd, cur, hops, rdVars, scVars>>

NextFilter ==
    \/ MatchDirect
    \/ WalkStart \/ WalkFound \/ WalkUp \/ WalkNoParent \/ WalkGivesUp

SpecFilter == InitFilter /\ [][NextFilter]_vars

\* The process computes matches_filter.
FilterAgrees == mpc = "done" => accepted = matches_filter(cfg, env, filter, cwd)

(***************************************************************************)
(* Inputs of the extractor: log lines as the JSON values the code reads.   *)
(* A line is blank, unparsable ("garbage"), unreadable ("ioerr": the       *)
(* reader yields Err for it, as on invalid UTF-8) or a JSON value with the *)
(* optional members type, timestamp and payload.                           *)
(***************************************************************************)
NoPayload ==
    [id |-> None, cwd |-> None, cli_version |-> None, model_provider |-> None,
     source |-> None, type |-> None, role |-> None, content |-> None]

RawLine(kind) == [kind |-> kind, type |-> None, timestamp |-> None, payload |-> None]

Json(type, timestamp, payload) ==
    [kind |-> "json", type |-> type, timestamp |-> timestamp, payload |-> payload]

MetaPayload(i, c, tag) ==
    [NoPayload EXCEPT !.id = i, !.cwd = c, !.cli_version = tag,
                      !.model_provider = tag, !.source = tag]

Message(role, content) ==
    [NoPayload EXCEPT !.type = Some("message"), !.role = Some(role),
                      !.content = Some(content)]

TextItem(t) == [text |-> Some(t)]

CwdA == <<"/", "w", "a">>
CwdB == <<"/", "w", "b">>

MetaFull == Json(Some("session_meta"), Some("t1"), Some(MetaPayload(Some("s1"), Some(CwdA), Some("x"))))
MetaOther == Json(Some("session_meta"), None, Some(MetaPayload(Some("s2"), Some(CwdB), None)))
MetaNoId == Json(Some("session_meta"), Some("t2"), Some(MetaPayload(None, Some(CwdA), None)))
MetaNoCwd == Json(Some("session_meta"), None, Some(MetaPayload(Some("s1"), None, None)))
MetaEmptyId == Json(Some("session_meta"), None, Some(MetaPayload(Some(""), Some(CwdA), None)))
MetaNoPayload == Json(Some("session_meta"), Some("t2"), None)

UserEnv == Json(Some("response_item"), None,
                Some(Message("user", <<TextItem(<<"<environment_context>", "LF", "x">>)>>)))
UserInstr == Json(Some("response_item"), None,
                  Some(Message("user", <<TextItem(<<"see", "SP", "<INSTRUCTIONS>">>)>>)))
UserFix == Json(Some("response_item"), None,
                Some(Message("user", <<TextItem(<<"SP">>),
                                       TextItem(<<"LF", "fix", "TAB", "bug", "CR", "LF", "more", "SP">>)>>)))
UserHello == Json(Some("response_item"), None,
                  Some(Message("user", <<[text |-> None], TextItem(<<"hello">>)>>)))
UserNoText == Json(Some("response_item"), None, Some(Message("user", <<TextItem(<<"TAB">>)>>)))
AssistantMsg == Json(Some("response_item"), None,
                     Some(Message("assistant", <<TextItem(<<"done">>)>>)))
OtherJson == Json(Some("event_msg"), Some("t3"), None)

SampleLines ==
    {RawLine("blank"), RawLine("garbage"), RawLine("ioerr"),
     MetaFull, MetaOther, MetaNoId, MetaNoCwd, MetaEmptyId, MetaNoPayload,
     UserEnv, UserInstr, UserFix, UserHello, UserNoText, AssistantMsg, OtherJson}

\* The lines that decide a record: longer files are built from these.
CoreLines ==
    {RawLine("garbage"), RawLine("ioerr"), MetaFull, MetaOther, MetaNoId,
     UserEnv, UserFix, UserHello}

\* As many blank and unparsable lines, in turn, as the line cap
Padding == [i \in 1..LineCap |-> IF i % 2 = 1 THEN RawLine("blank") ELSE RawLine("garbage")]

\* A line behind as many blank and unparsable lines as the line cap
PaddedLines == {Padding \o <<l>> : l \in SampleLines}

SampleFiles ==
    {[openable |-> TRUE, lines |-> ls] :
        ls \in SeqsUpTo(SampleLines, MaxShort) \cup SeqsUpTo(CoreLines, MaxLines)
                \cup PaddedLines}

SamplePath == <<<<2, 0, 2, 4>>, <<0, 1>>, <<0, 5>>, <<20, 1, 0>>>>

(***************************************************************************)
(* read_session_meta as a process: one step per line read.                 *)
(***************************************************************************)
InitExtract ==
    /\ lines \in SampleFiles \cup {Unopenable}
    /\ taken = 0
    /\ locals = InitLocals
    /\ rpc = "open"
    /\ ret = Err
    /\ IdleQuery /\ IdleFilter /\ IdleScan /\ IdleFind /\ IdlePicker /\ IdleQuick /\ IdleGather

\* fs::File::open(path)?
OpenFails ==
    /\ rpc = "open" /\ ~lines.openable
    /\ rpc' = "done" /\ ret' = Err
    /\ UNCHANGED <<lines, taken, locals, qVars, fdVars, uiVars, mfVars, scVars>>

OpenOk ==
    /\ rpc = "open" /\ lines.openable
    /\ rpc' = "loop"
    /\ UNCHANGED <<lines, taken, locals, ret, qVars, fdVars, uiVars, mfVars, scVars>>

HasNextLineUncapped == taken < Len(lines.lines)

\* reader.lines().take(300) yields another line
HasNextLine == taken < Len(lines.lines) /\ taken < LineCap

\* let line = line_result?;
ReadLineErr ==
    /\ rpc = "loop" /\ HasNextLine
    /\ process_line(locals, lines.lines[taken + 1]).ctl = "err"
    /\ taken' = taken + 1
    /\ rpc' = "done" /\ ret' = Err
    /\ UNCHANGED <<lines, locals, qVars, fdVars, uiVars, mfVars, scVars>>

\* an iteration left with `continue`
ReadLineContinue ==
    /\ rpc = "loop" /\ HasNextLine
    /\ LET r == process_line(locals, lines.lines[taken + 1])
       IN  /\ r.ctl = "continue"
           /\ locals' = r.acc
    /\ taken' = taken + 1
    /\ UNCHANGED <<lines, rpc, ret, qVars, fdVars, uiVars, mfVars, scVars>>

\* an iteration that reaches the final test and goes on
ReadLineNext ==
    /\ rpc = "loop" /\ HasNextLine
    /\ LET r == process_line(locals, lines.lines[taken + 1])
       IN  /\ r.ctl = "check" /\ ~stop_early(r.acc)
           /\ locals' = r.acc
    /\ taken' = taken + 1
    /\ UNCHANGED <<lines, rpc, ret, qVars, fdVars, uiVars, mfVars, scVars>>

\* an iteration that reaches the final test and breaks
ReadLineBreak ==
    /\ rpc = "loop" /\ HasNextLine
    /\ LET r == process_line(locals, lines.lines[taken + 1])
       IN  /\ r.ctl = "check" /\ stop_early(r.acc)
           /\ locals' = r.acc
    /\ taken' = taken + 1
    /\ rpc' = "end"
    /\ UNCHANGED <<lines, ret, qVars, fdVars, uiVars, mfVars, scVars>>

\* the iterator is exhausted: end of file or 300 lines taken
LoopEnds ==
    /\ rpc = "loop" /\ ~HasNextLine
    /\ rpc' = "end"
    /\ UNCHANGED <<lines, taken, locals, ret, qVars, fdVars, uiVars, mfVars, scVars>>

ReturnItem ==
    /\ rpc = "end"
    /\ ret' = build_item(SamplePath, locals)
    /\ rpc' = "done"
    /\ UNCHANGED <<lines, taken, locals, qVars, fdVars, uiVars, mfVars, scVars>>

NextExtract ==
    \/ OpenFails \/ OpenOk
    \/ ReadLineErr \/ ReadLineContinue \/ ReadLineNext \/ ReadLineBreak
    \/ LoopEnds \/ ReturnItem

SpecExtract == InitExtract /\ [][NextExtract]_vars

\* The characters of a free message text: the whitespace characters and a
\* letter
TextChars == WS \cup {"a"}

UserText(t) == Json(Some("response_item"), None, Some(Message("user", <<TextItem(t)>>)))

\* A log of a metadata line and a user message of any text, and the logs
\* that cannot be opened or read
TextFiles ==
    {[openable |-> TRUE, lines |-> <<MetaFull, UserText(t)>>] :
        t \in SeqsUpTo(TextChars, MaxText)}
    \cup {Unopenable, [openable |-> TRUE, lines |-> <<MetaFull, RawLine("ioerr")>>]}

InitSummary ==
    /\ lines \in TextFiles
    /\ taken = 0
    /\ locals = InitLocals
    /\ rpc = "open"
    /\ ret = Err
    /\ IdleQuery /\ IdleFilter /\ IdleScan /\ IdleFind /\ IdlePicker /\ IdleQuick /\ IdleGather

SpecSummary == InitSummary /\ [][NextExtract]_vars

\* The process computes read_session_meta.
ExtractAgrees == rpc = "done" => ret = read_session_meta(SamplePath, lines)

(***************************************************************************)
(* The log scanner: collect_dirs_desc, collect_rollout_files_desc          *)
(***************************************************************************)
\* Characters of directory and file names, by their byte order: the digits,
\* a letter, and the two fixed parts of a log file's name, each one token
\* ordered by its first byte.
Digit(n) == 48 + n
LetterX == 120
RolloutPrefix == 114
JsonlSuffix == 46

\* Ord for String: byte-wise lexicographic
RECURSIVE lex_less(_, _)
lex_less(a, b) ==
    IF a = <<>> THEN b # <<>>
    ELSE IF b = <<>> THEN FALSE
    ELSE IF a[1] # b[1] THEN a[1] < b[1]
    ELSE lex_less(Tail(a), Tail(b))

file_name(p) == p[Len(p)]

\* sort_by_key(|p| file_name): ascending
RECURSIVE sort_by_name_asc(_)
sort_by_name_asc(S) ==
    IF S = {} THEN <<>>
    ELSE LET m == CHOOSE x \in S : \A y \in S \ {x} : lex_less(file_name(x), file_name(y))
         IN  <<m>> \o sort_by_name_asc(S \ {m})

\* sort_by_key(|p| Reverse(file_name))
RECURSIVE sort_by_name_desc(_)
sort_by_name_desc(S) ==
    IF S = {} THEN <<>>
    ELSE LET m == CHOOSE x \in S : \A y \in S \ {x} : lex_less(file_name(y), file_name(x))
         IN  <<m>> \o sort_by_name_desc(S \ {m})

\* The entries fs::read_dir(parent) yields
children(c, parent) ==
    {q \in DOMAIN c.entries :
        Len(q) = Len(parent) + 1 /\ SubSeq(q, 1, Len(parent)) = parent}

\* fs::read_dir(parent) succeeds
can_read_always(c, parent) == TRUE

can_read_dir(c, parent) ==
    IF parent = <<>> THEN c.root = "ok" ELSE c.entries[parent].readable

\* name.len() is 2 or 4 and name.chars().all(|c| c.is_ascii_digit())
is_any_name(name) == TRUE

is_date_name(name) ==
    /\ Len(name) \in {2, 4}
    /\ \A i \in 1..Len(name) : name[i] \in Digit(0)..Digit(9)

\* name.starts_with("rollout-") && name.ends_with(".jsonl")
is_rollout_name(name) ==
    /\ name # <<>>
    /\ name[1] = RolloutPrefix
    /\ name[Len(name)] = JsonlSuffix

collect_dirs_desc(c, parent) ==
    IF ~can_read_dir(c, parent) THEN Err
    ELSE Ok(sort_by_name_desc({q \in children(c, parent) :
                /\ c.entries[q].type = "dir"
                /\ is_date_name(file_name(q))}))

collect_rollout_files_desc(c, day_path) ==
    IF ~can_read_dir(c, day_path) THEN Err
    ELSE Ok(sort_by_name_desc({q \in children(c, day_path) :
                /\ c.entries[q].type = "file"
                /\ is_rollout_name(file_name(q))}))

limit_reached_late(n, l) == n > l

\* if items.len() >= limit { return Ok(items); }
limit_reached(n, l) == n >= l

(***************************************************************************)
(* Inputs of the scanner: corpora of at most MaxFiles log files            *)
(***************************************************************************)
Name2(a, b) == <<Digit(a), Digit(b)>>
Y2024 == <<Digit(2), Digit(0), Digit(2), Digit(4)>>
Y2023 == <<Digit(2), Digit(0), Digit(2), Digit(3)>>
Y99 == Name2(9, 9)
Rollout(stem) == <<RolloutPrefix>> \o stem \o <<JsonlSuffix>>

\* Where a log file may be: two files of one day (rollout-2, rollout-10),
\* another day, another month, another (two-digit) year.
FileSlots ==
    {<<Y2024, Name2(0, 2), Name2(1, 0), Rollout(<<Digit(2)>>)>>,
     <<Y2024, Name2(0, 2), Name2(1, 0), Rollout(<<Digit(1), Digit(0)>>)>>,
     <<Y2024, Name2(0, 2), Name2(0, 5), Rollout(<<Digit(1)>>)>>,
     <<Y2024, Name2(0, 1), Name2(0, 5), Rollout(<<Digit(1)>>)>>,
     <<Y99, Name2(1, 2), Name2(3, 1), Rollout(<<Digit(1)>>)>>}

FileA == [openable |-> TRUE, lines |-> <<MetaFull, UserFix>>]
FileB == [openable |-> TRUE, lines |-> <<RawLine("garbage"), MetaOther>>]
FileNone == [openable |-> TRUE, lines |-> <<MetaNoId, UserHello>>]

FileContents == {FileA, FileB, FileNone}

DirEntry == [type |-> "dir", readable |-> TRUE, file |-> Unopenable]
\* An entry read_dir yields as Err, or whose file_type() is Err
FailingEntry == [type |-> "error", readable |-> FALSE, file |-> Unopenable]
FileEntry(f) == [type |-> "file", readable |-> TRUE, file |-> f]

Prefixes(p) == {SubSeq(p, 1, k) : k \in 1..(Len(p) - 1)}

\* The tree holding the files of content (a function on file paths) and the
\* directories dirs, every ancestor directory included.
Tree(content, dirs) ==
    LET ds == dirs \cup UNION {Prefixes(p) : p \in DOMAIN content \cup dirs}
    IN  [p \in ds \cup DOMAIN content |->
            IF p \in DOMAIN content THEN FileEntry(content[p]) ELSE DirEntry]

\* What else the tree may hold.
Oddities ==
    {"none", "empty year", "empty month", "empty day", "unreadable month",
     "unreadable day", "unreadable root", "unopenable file", "file named as a year",
     "directory named as a log", "stray names", "failing entries"}

\* A month whose name holds a letter and a year of three digits, a day with
\* a log file beneath each
StrayDir == <<Y2024, <<Digit(0), LetterX>>>>
StrayYear == <<<<Digit(2), Digit(0), Digit(2)>>>>
StrayDays == {StrayDir \o <<Name2(1, 0)>>, StrayYear \o <<Name2(0, 2), Name2(1, 0)>>}

Corpus(content, odd) ==
    LET base == Tree(content, {})
        with(dirs) == Tree(content, dirs)
        unreadable(t, d) ==
            [p \in DOMAIN t \cup {d} \cup Prefixes(d) |->
                IF p = d THEN [DirEntry EXCEPT !.readable = FALSE]
                ELSE IF p \in DOMAIN t THEN t[p] ELSE DirEntry]
        put(t, p, e) == [q \in DOMAIN t \cup {p} |-> IF q = p THEN e ELSE t[q]]
    IN  CASE odd = "none" -> [root |-> "ok", entries |-> base]
          [] odd = "empty year" -> [root |-> "ok", entries |-> with({<<Y2023>>})]
          [] odd = "empty month" -> [root |-> "ok", entries |-> with({<<Y2024, Name2(0, 3)>>})]
          [] odd = "empty day" ->
                [root |-> "ok", entries |-> with({<<Y2024, Name2(0, 2), Name2(0, 7)>>})]
          [] odd = "unreadable month" ->
                [root |-> "ok", entries |-> unreadable(base, <<Y2024, Name2(0, 1)>>)]
          [] odd = "unreadable day" ->
                [root |-> "ok", entries |-> unreadable(base, <<Y2024, Name2(0, 2), Name2(0, 5)>>)]
          [] odd = "unreadable root" -> [root |-> "unreadable", entries |-> base]
          [] odd = "unopenable file" ->
                [root |-> "ok",
                 entries |-> put(with({<<Y2024, Name2(0, 2), Name2(1, 0)>>}),
                                 <<Y2024, Name2(0, 2), Name2(1, 0), Rollout(<<Digit(9)>>)>>,
                                 FileEntry(Unopenable))]
          [] odd = "file named as a year" ->
                [root |-> "ok", entries |-> put(base, <<Name2(9, 8)>>, FileEntry(FileA))]
          [] odd = "directory named as a log" ->
                [root |-> "ok",
                 entries |-> put(with({<<Y2024, Name2(0, 2), Name2(1, 0)>>}),
                                 <<Y2024, Name2(0, 2), Name2(1, 0), Rollout(<<Digit(9)>>)>>,
                                 DirEntry)]
          [] odd = "stray names" ->
                [root |-> "ok",
                 entries |->
                    LET t == with({<<Y2024, Name2(0, 2), Name2(1, 0)>>} \cup StrayDays)
                        logs == {d \o <<Rollout(<<Digit(9)>>)>> : d \in StrayDays}
                               \cup {<<Y2024, Name2(0, 2), Name2(1, 0), <<LetterX, Digit(9), JsonlSuffix>>>>,
                                     <<Y2024, Name2(0, 2), Name2(1, 0), <<RolloutPrefix, Digit(9)>>>>}
                    IN  [q \in DOMAIN t \cup logs |->
                            IF q \in logs THEN FileEntry(FileA) ELSE t[q]]]

          [] odd = "failing entries" ->
                [root |-> "ok",
                 entries |-> put(put(with({<<Y2024, Name2(0, 2), Name2(1, 0)>>}),
                                     <<Name2(9, 7)>>, FailingEntry),
                                 <<Y2024, Name2(0, 2), Name2(1, 0), Rollout(<<Digit(9)>>)>>,
                                 FailingEntry)]

SampleContents == UNION {[F -> FileContents] : F \in SubsetsUpTo(FileSlots, MaxFiles)}

PlainCorpora == {Corpus(content, "none") : content \in SampleContents}

OddCorpora ==
    {Corpus(content, odd) : content \in SampleContents, odd \in Oddities}
    \cup {[root |-> "missing", entries |-> <<>>]}

\* The configuration and machine of the scans: CwdA is a configured target
\* and a repository root, CwdB is neither.
ScanConfig == [paths |-> <<CwdA>>, roots |-> <<>>]
ScanEnv == [home |-> Some(Home), markers |-> {CwdA, <<"/">>}]

ScanFilters ==
    {[kind |-> "All", arg |-> <<>>], [kind |-> "Scoped", arg |-> <<>>],
     [kind |-> "ForCwd", arg |-> CwdB], [kind |-> "ForRepoRoot", arg |-> CwdA]}

(***************************************************************************)
(* list_recent_sessions as a process: one step per directory read, per     *)
(* file visited and per loop left.                                         *)
(***************************************************************************)
InitScan ==
    /\ \/ corpus \in PlainCorpora /\ filter \in ScanFilters
       \/ corpus \in OddCorpora /\ filter = [kind |-> "All", arg |-> <<>>]
    /\ cfg = ScanConfig
    /\ env = ScanEnv
    /\ limit \in 0..MaxLimit
    /\ stack = <<>>
    /\ items = <<>>
    /\ spc = "start"
    /\ sret = Err
    /\ listed = <<>>
    /\ opened = <<>>
    /\ IdleExtract /\ IdleFilter /\ IdleFind /\ IdlePicker /\ IdleQuick /\ IdleGather

ScanNoRootFails ==
    /\ spc = "start" /\ corpus.root = "missing"
    /\ sret' = Err /\ spc' = "done"
    /\ UNCHANGED <<corpus, limit, stack, items, listed, opened, qVars, fdVars, uiVars, rdVars, mfVars>>

\* if !sessions_root.exists() { return Ok(Vec::new()); }
ScanNoRoot ==
    /\ spc = "start" /\ corpus.root = "missing"
    /\ sret' = Ok(<<>>) /\ spc' = "done"
    /\ UNCHANGED <<corpus, limit, stack, items, listed, opened, qVars, fdVars, uiVars, rdVars, mfVars>>

\* collect_dirs_desc(&sessions_root)? fails
ScanRootFails ==
    /\ spc = "start" /\ corpus.root # "missing"
    /\ ~collect_dirs_desc(corpus, <<>>).ok
    /\ listed' = Append(listed, <<>>)
    /\ sret' = Err /\ spc' = "done"
    /\ UNCHANGED <<corpus, limit, stack, items, opened, qVars, fdVars, uiVars, rdVars, mfVars>>

\* for year_path in collect_dirs_desc(&sessions_root)?
ScanRoot ==
    /\ spc = "start" /\ corpus.root # "missing"
    /\ collect_dirs_desc(corpus, <<>>).ok
    /\ stack' = <<collect_dirs_desc(corpus, <<>>).val>>
    /\ listed' = Append(listed, <<>>)
    /\ spc' = "loop"
    /\ UNCHANGED <<corpus, limit, items, sret, opened, qVars, fdVars, uiVars, rdVars, mfVars>>

Depth == Len(stack)
AtDir == spc = "loop" /\ Depth \in 1..3 /\ stack[Depth] # <<>>
AtFile == spc = "loop" /\ Depth = 4 /\ stack[Depth] # <<>>
Next1 == Head(stack[Depth])
Advance == [stack EXCEPT ![Depth] = Tail(@)]

\* What the loop one level down iterates over: the months of a year, the
\* days of a month, the log files of a day.
Listing(dir) ==
    IF Len(dir) < 3 THEN collect_dirs_desc(corpus, dir)
    ELSE collect_rollout_files_desc(corpus, dir)

\* the next year, month or day: its listing starts the loop one level down
EnterDir ==
    /\ AtDir
    /\ Listing(Next1).ok
    /\ stack' = Append(Advance, Listing(Next1).val)
    /\ listed' = Append(listed, Next1)
    /\ UNCHANGED <<corpus, limit, items, spc, sret, opened, qVars, fdVars, uiVars, rdVars, mfVars>>

\* collect_dirs_desc(..)? or collect_rollout_files_desc(..)? fails
EnterDirFails ==
    /\ AtDir
    /\ ~Listing(Next1).ok
    /\ listed' = Append(listed, Next1)
    /\ sret' = Err /\ spc' = "done"
    /\ UNCHANGED <<corpus, limit, stack, items, opened, qVars, fdVars, uiVars, rdVars, mfVars>>

\* an inner for loop ends
LeaveDir ==
    /\ spc = "loop" /\ Depth > 1 /\ stack[Depth] = <<>>
    /\ stack' = SubSeq(stack, 1, Depth - 1)
    /\ UNCHANGED <<corpus, limit, items, spc, sret, listed, opened, qVars, fdVars, uiVars, rdVars, mfVars>>

\* the loop over the years ends: Ok(items)
ScanEnds ==
    /\ spc = "loop" /\ Depth = 1 /\ stack[1] = <<>>
    /\ sret' = Ok(items) /\ spc' = "done"
    /\ UNCHANGED <<corpus, limit, stack, items, listed, opened, qVars, fdVars, uiVars, rdVars, mfVars>>

\* if items.len() >= limit { return Ok(items); }
FileLimit ==
    /\ AtFile
    /\ limit_reached(Len(items), limit)
    /\ sret' = Ok(items) /\ spc' = "done"
    /\ UNCHANGED <<corpus, limit, stack, items, listed, opened, qVars, fdVars, uiVars, rdVars, mfVars>>

Session(p) == read_session_meta(p, corpus.entries[p].file)

\* let Some(session) = read_session_meta(&p).ok().flatten() else { continue };
FileSkipped ==
    /\ AtFile
    /\ ~limit_reached(Len(items), limit)
    /\ ~Session(Next1).ok \/ Session(Next1).val = None
    /\ opened' = Append(opened, Next1)
    /\ stack' = Advance
    /\ UNCHANGED <<corpus, limit, items, spc, sret, listed, qVars, fdVars, uiVars, rdVars, mfVars>>

\* if !matches_filter(cfg, &filter, &session.cwd) { continue; }
FileRejected ==
    /\ AtFile
    /\ ~limit_reached(Len(items), limit)
    /\ Session(Next1).ok /\ Session(Next1).val # None
    /\ ~matches_filter(cfg, env, filter, Session(Next1).val[1].cwd)
    /\ opened' = Append(opened, Next1)
    /\ stack' = Advance
    /\ UNCHANGED <<corpus, limit, items, spc, sret, listed, qVars, fdVars, uiVars, rdVars, mfVars>>

\* items.push(session);
FileCollected ==
    /\ AtFile
    /\ ~limit_reached(Len(items), limit)
    /\ Session(Next1).ok /\ Session(Next1).val # None
    /\ matches_filter(cfg, env, filter, Session(Next1).val[1].cwd)
    /\ items' = Append(items, Session(Next1).val[1])
    /\ opened' = Append(opened, Next1)
    /\ stack' = Advance
    /\ UNCHANGED <<corpus, limit, spc, sret, listed, qVars, fdVars, uiVars, rdVars, mfVars>>

NextScan ==
    \/ ScanNoRoot \/ ScanRootFails \/ ScanRoot
    \/ EnterDir \/ EnterDirFails \/ LeaveDir \/ ScanEnds
    \/ FileLimit \/ FileSkipped \/ FileRejected \/ FileCollected

SpecScan == InitScan /\ [][NextScan]_vars

(***************************************************************************)
(* find_session_by_id as a process: the same walk, without filter or limit *)
(***************************************************************************)
id_equals_any(a, b) == TRUE

\* session.id == id
id_equals(a, b) == a = b

\* The ids looked for: the ids of the sample records, the empty id, an id
\* no record has.
SampleIds == {"s1", "s2", "", "s9"}

InitFind ==
    /\ corpus \in OddCorpora
    /\ id \in SampleIds
    /\ fstack = <<>>
    /\ fpc = "start"
    /\ fret = Err
    /\ fopened = <<>>
    /\ limit = 0 /\ stack = <<>> /\ items = <<>> /\ spc = "idle" /\ sret = Err
    /\ listed = <<>> /\ opened = <<>>
    /\ IdleQuery /\ IdleExtract /\ IdleFilter /\ IdlePicker /\ IdleQuick /\ IdleGather

\* if !sessions_root.exists() { return Ok(None); }
FindNoRoot ==
    /\ fpc = "start" /\ corpus.root = "missing"
    /\ fret' = Ok(None) /\ fpc' = "done"
    /\ UNCHANGED <<id, fstack, fopened, uiVars, qVars, rdVars, mfVars, scVars>>

\* collect_dirs_desc(&sessions_root)? fails
FindRootFails ==
    /\ fpc = "start" /\ corpus.root # "missing"
    /\ ~collect_dirs_desc(corpus, <<>>).ok
    /\ fret' = Err /\ fpc' = "done"
    /\ UNCHANGED <<id, fstack, fopened, uiVars, qVars, rdVars, mfVars, scVars>>

\* for year_path in collect_dirs_desc(&sessions_root)?
FindRoot ==
    /\ fpc = "start" /\ corpus.root # "missing"
    /\ collect_dirs_desc(corpus, <<>>).ok
    /\ fstack' = <<collect_dirs_desc(corpus, <<>>).val>>
    /\ fpc' = "loop"
    /\ UNCHANGED <<id, fret, fopened, uiVars, qVars, rdVars, mfVars, scVars>>

FindDepth == Len(fstack)
FindAtDir == fpc = "loop" /\ FindDepth \in 1..3 /\ fstack[FindDepth] # <<>>
FindAtFile == fpc = "loop" /\ FindDepth = 4 /\ fstack[FindDepth] # <<>>
FindNext1 == Head(fstack[FindDepth])
FindAdvance == [fstack EXCEPT ![FindDepth] = Tail(@)]

\* the next year, month or day: its listing starts the loop one level down
FindEnterDir ==
    /\ FindAtDir
    /\ Listing(FindNext1).ok
    /\ fstack' = Append(FindAdvance, Listing(FindNext1).val)
    /\ UNCHANGED <<id, fpc, fret, fopened, uiVars, qVars, rdVars, mfVars, scVars>>

\* collect_dirs_desc(..)? or collect_rollout_files_desc(..)? fails
FindEnterDirFails ==
    /\ FindAtDir
    /\ ~Listing(FindNext1).ok
    /\ fret' = Err /\ fpc' = "done"
    /\ UNCHANGED <<id, fstack, fopened, uiVars, qVars, rdVars, mfVars, scVars>>

\* an inner for loop ends
FindLeaveDir ==
    /\ fpc = "loop" /\ FindDepth > 1 /\ fstack[FindDepth] = <<>>
    /\ fstack' = SubSeq(fstack, 1, FindDepth - 1)
    /\ UNCHANGED <<id, fpc, fret, fopened, uiVars, qVars, rdVars, mfVars, scVars>>

\* the loop over the years ends: Ok(None)
FindEnds ==
    /\ fpc = "loop" /\ FindDepth = 1 /\ fstack[1] = <<>>
    /\ fret' = Ok(None) /\ fpc' = "done"
    /\ UNCHANGED <<id, fstack, fopened, uiVars, qVars, rdVars, mfVars, scVars>>

\* let Some(session) = read_session_meta(&p).ok().flatten() else { continue };
FindSkipped ==
    /\ FindAtFile
    /\ ~Session(FindNext1).ok \/ Session(FindNext1).val = None
    /\ fopened' = Append(fopened, FindNext1)
    /\ fstack' = FindAdvance
    /\ UNCHANGED <<id, fpc, fret, uiVars, qVars, rdVars, mfVars, scVars>>

\* session.id == id is false: the next file
FindOtherId ==
    /\ FindAtFile
    /\ Session(FindNext1).ok /\ Session(FindNext1).val # None
    /\ ~id_equals(Session(FindNext1).val[1].id, id)
    /\ fopened' = Append(fopened, FindNext1)
    /\ fstack' = FindAdvance
    /\ UNCHANGED <<id, fpc, fret, uiVars, qVars, rdVars, mfVars, scVars>>

\* if session.id == id { return Ok(Some(session)); }
FindMatch ==
    /\ FindAtFile
    /\ Session(FindNext1).ok /\ Session(FindNext1).val # None
    /\ id_equals(Session(FindNext1).val[1].id, id)
    /\ fopened' = Append(fopened, FindNext1)
    /\ fret' = Ok(Session(FindNext1).val) /\ fpc' = "done"
    /\ UNCHANGED <<id, fstack, uiVars, qVars, rdVars, mfVars, scVars>>

NextFind ==
    \/ FindNoRoot \/ FindRootFails \/ FindRoot
    \/ FindEnterDir \/ FindEnterDirFails \/ FindLeaveDir \/ FindEnds
    \/ FindSkipped \/ FindOtherId \/ FindMatch

SpecFind == InitFind /\ [][NextFind]_vars

(***************************************************************************)
(* list_recent_sessions and find_session_by_id over the same corpora.      *)
(***************************************************************************)
WalkCorpora ==
    {Corpus(content, odd) :
        content \in UNION {[F -> FileContents] : F \in SubsetsUpTo(FileSlots, MaxWalkFiles)},
        odd \in Oddities}
    \cup {[root |-> "missing", entries |-> <<>>]}

InitWalks ==
    /\ corpus \in WalkCorpora
    /\ \/ /\ \/ filter = [kind |-> "All", arg |-> <<>>]
             \/ filter \in ScanFilters /\ corpus.root = "missing"
             \/ filter \in ScanFilters /\ corpus \in PlainCorpora
          /\ cfg = ScanConfig
          /\ env = ScanEnv
          /\ limit \in 0..MaxLimit
          /\ spc = "start"
          /\ id = "" /\ fpc = "idle"
       \/ /\ IdleQuery
          /\ limit = 0
          /\ spc = "idle"
          /\ id \in {"s1", "s9"} /\ fpc = "start"
    /\ stack = <<>> /\ items = <<>> /\ sret = Err
    /\ listed = <<>> /\ opened = <<>>
    /\ fstack = <<>> /\ fret = Err /\ fopened = <<>>
    /\ IdleExtract /\ IdleFilter /\ IdlePicker /\ IdleQuick /\ IdleGather

SpecWalks == InitWalks /\ [][NextScan \/ NextFind]_vars

(***************************************************************************)
(* The picker: filter_targets, filter_sessions, the key handlers           *)
(***************************************************************************)
\* usize::saturating_sub
saturating_sub(a, b) == IF a > b THEN a - b ELSE 0

\* slice.get(i), indices counted from 0
get(s, i) == IF i < Len(s) THEN Some(s[i + 1]) ELSE None

\* Path::display: the components joined by the separator
RECURSIVE join_components(_)
join_components(p) ==
    IF p = <<>> THEN <<>>
    ELSE IF Len(p) = 1 THEN p
    ELSE <<p[1], "/">> \o join_components(Tail(p))

display(p) ==
    IF p # <<>> /\ p[1] = "/" THEN <<"/">> \o join_components(Tail(p))
    ELSE join_components(p)

\* The positions of the leftmost occurrence of q in hay as a subsequence,
\* searched from position i on
RECURSIVE match_from(_, _, _)
match_from(hay, q, i) ==
    IF q = <<>> THEN Some(<<>>)
    ELSE IF i > Len(hay) THEN None
    ELSE IF hay[i] = q[1]
         THEN LET r == match_from(hay, Tail(q), i + 1)
              IN  IF r = None THEN None ELSE Some(<<i>> \o r[1])
    ELSE match_from(hay, q, i + 1)

\* matcher.fuzzy_match(&hay, q): no score unless q is a subsequence of hay;
\* the score grows with the length of the query, with a match at the start
\* of hay and with every pair of adjacent matched characters.
fuzzy_match(hay, q) ==
    LET m == match_from(hay, q, 1)
    IN  IF m = None THEN None
        ELSE LET ps == m[1]
                 adjacent == Cardinality({i \in 1..(Len(ps) - 1) : ps[i + 1] = ps[i] + 1})
             IN  Some(16 * Len(ps) + 4 * adjacent
                      + (IF ps # <<>> /\ ps[1] = 1 THEN 8 ELSE 0))

sort_skipped(pairs) == pairs

\* scored.sort_by(|a, b| b.0.cmp(&a.0)): stable, descending by score
RECURSIVE sort_by_score_desc(_)
sort_by_score_desc(pairs) ==
    IF pairs = <<>> THEN <<>>
    ELSE LET best == CHOOSE i \in 1..Len(pairs) :
                        /\ \A j \in 1..Len(pairs) : pairs[j][1] <= pairs[i][1]
                        /\ \A j \in 1..(i - 1) : pairs[j][1] < pairs[i][1]
             rest == [j \in 1..(Len(pairs) - 1) |->
                        IF j < best THEN pairs[j] ELSE pairs[j + 1]]
         IN  <<pairs[best]>> \o sort_by_score_desc(rest)

\* The (score, i) pairs of the items the matcher scores, in list order
RECURSIVE scored_from(_, _, _)
scored_from(hays, q, i) ==
    IF i > Len(hays) THEN <<>>
    ELSE LET sc == fuzzy_match(hays[i], q)
         IN  (IF sc = None THEN <<>> ELSE <<<<sc[1], i - 1>>>>)
             \o scored_from(hays, q, i + 1)

filter_hays_blank_matches_none(hays, text) ==
    LET q == trim(text)
    IN  IF q = <<>> THEN <<>>
        ELSE LET sorted == sort_by_score_desc(scored_from(hays, q, 1))
             IN  [i \in 1..Len(sorted) |-> sorted[i][2]]

\* The body shared by filter_targets and filter_sessions, on the items' texts
filter_hays(hays, text) ==
    LET q == trim(text)
    IN  IF q = <<>> THEN [i \in 1..Len(hays) |-> i - 1]
        ELSE LET sorted == sort_by_score_desc(scored_from(hays, q, 1))
             IN  [i \in 1..Len(sorted) |-> sorted[i][2]]

\* ProjectTarget's Display without its padding: label, path, "-" for a
\* target without last session
target_string(t) == t.label \o <<"SP", "SP">> \o display(t.path) \o <<"SP", "SP", "-">>

\* format!("{} {} {}", s.id, s.cwd.display(), s.summary.as_deref().unwrap_or_default())
session_hay(s) ==
    <<s.id, "SP">> \o display(s.cwd) \o <<"SP">>
    \o (IF s.summary = None THEN <<>> ELSE s.summary[1])

filter_targets(ts, text) == filter_hays([i \in 1..Len(ts) |-> target_string(ts[i])], text)

filter_sessions(ss, text) == filter_hays([i \in 1..Len(ss) |-> session_hay(ss[i])], text)

selected_target_unfiltered(ts, filtered, cursor_idx) == get(ts, cursor_idx)

\* filtered.get(cursor_idx).and_then(|idx| targets.get(*idx)).cloned()
selected_target(ts, filtered, cursor_idx) ==
    IF get(filtered, cursor_idx) = None THEN None
    ELSE get(ts, get(filtered, cursor_idx)[1])

selected_session_unfiltered(ss, filtered, cursor_idx) == get(ss, cursor_idx)

selected_session(ss, filtered, cursor_idx) ==
    IF get(filtered, cursor_idx) = None THEN None
    ELSE get(ss, get(filtered, cursor_idx)[1])

\* sessions_for_target from the i-th session on
RECURSIVE sessions_for_target_from(_, _, _, _, _, _)
sessions_for_target_from(markers, target, all, lim, i, out) ==
    LET repo_root == find_git_root(markers, target.path)
        target_is_repo_root == repo_root # None /\ repo_root[1] = target.path
    IN  IF i > Len(all) \/ Len(out) >= lim THEN out
        ELSE IF target_is_repo_root
             THEN sessions_for_target_from(markers, target, all, lim, i + 1,
                      IF find_git_root(markers, all[i].cwd) = repo_root
                      THEN Append(out, all[i]) ELSE out)
        ELSE sessions_for_target_from(markers, target, all, lim, i + 1,
                 IF path_starts_with(all[i].cwd, target.path)
                 THEN Append(out, all[i]) ELSE out)

sessions_under_target(markers, target, all, lim) ==
    LET under == SelectSeq(all, LAMBDA s : path_starts_with(s.cwd, target.path))
    IN  SubSeq(under, 1, Min(Len(under), lim))

sessions_for_target(markers, target, all, lim) ==
    sessions_for_target_from(markers, target, all, lim, 1, <<>>)

Max(a, b) == IF a >= b THEN a ELSE b

list_rows_unbounded(rows) == saturating_sub(rows, 5)

\* let list_rows = rows.saturating_sub(5).max(1);
list_rows(rows) == Max(saturating_sub(rows, 5), 1)

\* The list part of render_projects, render_sessions and
\* render_project_sessions for a list of len rows: the window, and the row
\* offsets the loop over .enumerate().skip(start).take(end - start) draws,
\* of which the one equal to cursor_idx is highlighted
render_list(cursor_idx, rows, len) ==
    LET start == saturating_sub(cursor_idx, list_rows(rows) \div 2)
        end == Min(start + list_rows(rows), len)
        drawn == {i \in 0..(len - 1) : i >= start /\ i < start + saturating_sub(end, start)}
    IN  [rows |-> rows, len |-> len, cursor |-> cursor_idx,
         start |-> start, end |-> end, drawn |-> drawn,
         highlighted |-> {i \in drawn : i = cursor_idx}]

\* Keys: KeyEvent's code and modifiers; ch is the character of KeyCode::Char
Key(code) == [code |-> code, ch |-> "", mods |-> "NONE"]
Char(ch) == [code |-> "Char", ch |-> ch, mods |-> "NONE"]
Ctrl(ch) == [code |-> "Char", ch |-> ch, mods |-> "CONTROL"]
Shift(ch) == [code |-> "Char", ch |-> ch, mods |-> "SHIFT"]

is_char(k, ch, mods) == k.code = "Char" /\ k.ch = ch /\ k.mods = mods

\* char::is_control
is_control(ch) == ch \in {"TAB", "LF", "CR"}

\* The cursor step of PageUp and PageDown
PageStep == 10

\* The views
TabView(tab) == [kind |-> tab, target |-> None, sessions |-> <<>>]
DrillView(t, ss) == [kind |-> "ProjectSessions", target |-> Some(t), sessions |-> ss]

\* if cursor >= filtered.len() && !filtered.is_empty() { cursor = filtered.len() - 1; }
clamp_never(cursor, len) == cursor

clamp_tab(cursor, len) == IF cursor >= len /\ len # 0 THEN len - 1 ELSE cursor

\* if project_sessions_cursor > filtered.len() { project_sessions_cursor = filtered.len(); }
clamp_drill(cursor, len) == IF cursor > len THEN len ELSE cursor

\* The cursor moves shared by handle_list_key and handle_project_sessions_key
\* (len is the number of rows); the cursor itself when key is no such key
move_cursor(key, cursor_idx, len) ==
    CASE key.code = "Up" \/ is_char(key, "k", "NONE") ->
            IF len > 0 THEN saturating_sub(cursor_idx, 1) ELSE cursor_idx
      [] key.code = "Down" \/ is_char(key, "j", "NONE") ->
            IF len > 0 THEN Min(cursor_idx + 1, saturating_sub(len, 1)) ELSE cursor_idx
      [] key.code = "PageUp" -> saturating_sub(cursor_idx, PageStep)
      [] key.code = "PageDown" ->
            IF len > 0 THEN Min(cursor_idx + PageStep, saturating_sub(len, 1)) ELSE cursor_idx
      [] key.code = "Home" -> 0
      [] key.code = "End" -> IF len > 0 THEN len - 1 ELSE cursor_idx
      [] OTHER -> cursor_idx

is_move(key) ==
    \/ key.code \in {"Up", "Down", "PageUp", "PageDown", "Home", "End"}
    \/ is_char(key, "k", "NONE") \/ is_char(key, "j", "NONE")

\* filter.pop()
pop_char(text) == IF text = <<>> THEN text ELSE SubSeq(text, 1, Len(text) - 1)

edit_keeps_cursor(key, text, cursor_idx) ==
    CASE key.code = "Backspace" -> [filter |-> pop_char(text), cursor |-> cursor_idx]
      [] is_char(key, "u", "CONTROL") -> [filter |-> <<>>, cursor |-> cursor_idx]
      [] key.code = "Char" /\ key.mods = "NONE" /\ ~is_control(key.ch) ->
            [filter |-> Append(text, key.ch), cursor |-> cursor_idx]
      [] OTHER -> [filter |-> text, cursor |-> cursor_idx]

\* The filter edits shared by the two handlers: Backspace, Ctrl-U, a
\* character; text and cursor as they are when key is no such key
edit_filter(key, text, cursor_idx) ==
    CASE key.code = "Backspace" -> [filter |-> pop_char(text), cursor |-> 0]
      [] is_char(key, "u", "CONTROL") -> [filter |-> <<>>, cursor |-> 0]
      [] key.code = "Char" /\ key.mods = "NONE" /\ ~is_control(key.ch) ->
            [filter |-> Append(text, key.ch), cursor |-> 0]
      [] OTHER -> [filter |-> text, cursor |-> cursor_idx]

esc_to_projects(tab) == "Projects"

\* (KeyCode::Esc, _) in the tabs SessionsScoped and SessionsAll: the tab shown next
esc_of(tab) ==
    CASE tab = "SessionsScoped" -> "Projects"
      [] tab = "SessionsAll" -> "SessionsScoped"

left_of(tab) ==
    CASE tab = "Projects" -> "Projects"
      [] tab = "SessionsScoped" -> "Projects"
      [] tab = "SessionsAll" -> "SessionsScoped"

right_stays(tab) == tab

right_of(tab) ==
    CASE tab = "Projects" -> "SessionsScoped"
      [] tab = "SessionsScoped" -> "SessionsAll"
      [] tab = "SessionsAll" -> "SessionsAll"

handle_list_key(key, text, cursor_idx, len, tab) ==
    LET out(o, t, f, c) == [outcome |-> o, tab |-> t, filter |-> f, cursor |-> c]
    IN  CASE key.code = "Left" -> out("SwitchTab", left_of(tab), text, cursor_idx)
          [] key.code = "Right" -> out("SwitchTab", right_of(tab), text, cursor_idx)
          [] is_char(key, "n", "NONE") /\ tab = "Projects" ->
                out("StartNew", tab, text, cursor_idx)
          [] key.code = "Enter" -> out("Activate", tab, text, cursor_idx)
          [] is_move(key) -> out("Continue", tab, text, move_cursor(key, cursor_idx, len))
          [] OTHER -> LET e == edit_filter(key, text, cursor_idx)
                      IN  out("Continue", tab, e.filter, e.cursor)

handle_project_sessions_key(key, text, cursor_idx, sessions_len) ==
    LET len == sessions_len + 1
        out(o, i, f, c) == [outcome |-> o, filtered_idx |-> i, filter |-> f, cursor |-> c]
    IN  CASE key.code = "Enter" ->
                IF cursor_idx = 0 THEN out("StartNew", 0, text, cursor_idx)
                ELSE out("Resume", saturating_sub(cursor_idx, 1), text, cursor_idx)
          [] is_move(key) -> out("Continue", 0, text, move_cursor(key, cursor_idx, len))
          [] OTHER -> LET e == edit_filter(key, text, cursor_idx)
                      IN  out("Continue", 0, e.filter, e.cursor)

drill_entry_keeps(text, cursor_idx) == [filter |-> text, cursor |-> cursor_idx]

\* project_sessions_filter.clear(); project_sessions_cursor = 0;
drill_entry(text, cursor_idx) == [filter |-> <<>>, cursor |-> 0]

back_to_sessions == TabView("SessionsScoped")

\* view = View::Tab(Tab::Projects), on Esc and Left in the drill-down
back_view == TabView("Projects")

\* ProjectPick
Quit == [kind |-> "Quit", item |-> None]
OpenConfig == [kind |-> "OpenConfig", item |-> None]
New(t) == [kind |-> "New", item |-> Some(t)]
Resume(s) == [kind |-> "Resume", item |-> Some(s)]

(***************************************************************************)
(* Inputs of the picker, as Cmd::Pick builds them                          *)
(***************************************************************************)
Target(path, label) == [path |-> path, label |-> label]

PickSession(i, c, summary) ==
    [id |-> i, created_at |-> None, cwd |-> c, summary |-> summary,
     cli_version |-> None, model_provider |-> None, source |-> None,
     path |-> SamplePath]

\* CwdA is a configured target and a repository root, CwdB is neither.
PickEnv == [home |-> Some(Home), markers |-> {CwdA}]

TargetA == Target(CwdA, <<"p", "n">>)
TargetB == Target(CwdB, <<"n">>)
TargetW == Target(<<"/", "w">>, <<"a", "p">>)

SessionA1 == PickSession("s1", CwdA, Some(<<"p">>))
SessionA2 == PickSession("s2", CwdA \o <<"sub">>, None)
SessionB1 == PickSession("s3", CwdB, Some(<<"n", "SP", "p">>))
SessionB2 == PickSession("s4", CwdB, Some(<<"p", "p">>))

\* Five targets of which the second, fourth and fifth match "proj"
ProjTargets ==
    <<Target(<<"/", "t", "1">>, <<"a">>),
      Target(<<"/", "t", "2">>, <<"a", "p", "r", "o", "j">>),
      Target(<<"/", "t", "3">>, <<"b">>),
      Target(<<"/", "t", "4">>, <<"p", "r", "o", "j">>),
      Target(<<"/", "t", "5">>, <<"p", "r", "x", "o", "j">>)>>

TargetLists == {<<TargetA>>, <<TargetW, TargetB, TargetA>>}

SessionLists == {<<SessionB1, SessionB2>>, <<SessionA1, SessionB1, SessionA2, SessionB2>>}

\* sessions_index.iter().filter(|s| cfg.is_scoped_target(&s.cwd)).cloned().collect()
scoped_of(all) == SelectSeq(all, LAMBDA s : is_scoped_target(ScanConfig, PickEnv.home, s.cwd))

\* The characters typed into filters when the keys are free
FreeChars == {"p", "n"}

FreeKeys ==
    {Key(c) : c \in {"Esc", "Left", "Right", "Enter", "Up", "Down", "PageUp",
                     "PageDown", "Home", "End", "Backspace", "Tab"}}
    \cup {Char(c) : c \in FreeChars \cup {"q", "o", "j", "k", "TAB"}}
    \cup {Ctrl("u"), Ctrl("c"), Shift("p")}

ProjScript ==
    <<Char("p"), Char("r"), Char("o"), Char("j"), Key("Down"), Key("Down"), Key("Enter")>>

PrScript == <<Char("p"), Char("r"), Key("Down"), Key("Enter")>>

\* A filter text that is blank, then one with blanks around a character
BlankScript == <<Char("SP"), Key("Down"), Char("SP"), Char("r"), Char("SP"), Key("Enter")>>

Scripts == {ProjScript, PrScript, BlankScript}

(***************************************************************************)
(* The terminal and its guard.                                             *)
(***************************************************************************)
\* The terminal as pick_project finds it: cooked, main screen, cursor shown
CookedTerm == [raw |-> FALSE, alt |-> FALSE, hidden |-> FALSE]

should_use_alt_screen == ~no_alt

\* The terminal once TerminalGuard::enter has returned Ok
EnteredTerm == [raw |-> TRUE, alt |-> should_use_alt_screen, hidden |-> TRUE]

\* impl Drop for TerminalGuard, run when a constructed guard goes out of
\* scope: cursor::Show, LeaveAlternateScreen or a newline, disable_raw_mode.
\* No guard, nothing run.
drop(t, g) ==
    IF g = None THEN t
    ELSE [raw |-> FALSE,
          alt |-> IF g[1].use_alt_screen THEN FALSE ELSE t.alt,
          hidden |-> FALSE]

InitPicker ==
    /\ \/ /\ keys = [free |-> TRUE, script |-> <<>>]
          /\ targets \in TargetLists
          /\ sessions_all \in SessionLists
          /\ per_project_limit \in 1..MaxPerProject
       \/ /\ keys \in [free : {FALSE}, script : Scripts]
          /\ targets = ProjTargets
          /\ sessions_all = <<SessionA1>>
          /\ per_project_limit = 1
    /\ sessions_scoped = scoped_of(sessions_all)
    /\ cfg = ScanConfig
    /\ env = PickEnv
    /\ filter = [kind |-> "All", arg |-> <<>>]
    /\ view = TabView("Projects")
    /\ project_filter = <<>> /\ project_cursor = 0
    /\ sessions_filter = <<>> /\ sessions_cursor = 0
    /\ project_sessions_filter = <<>> /\ project_sessions_cursor = 0
    /\ upc = "render"
    /\ pick = None
    /\ kpos = 0
    /\ ev = None
    /\ entry = None
    /\ sizes = {MaxRows} /\ frame = None
    /\ no_alt = FALSE
    /\ term = EnteredTerm
    /\ guard = Some([use_alt_screen |-> should_use_alt_screen])
    /\ err = None
    /\ IdleExtract /\ IdleFilter /\ IdleScan /\ IdleFind /\ IdleQuick /\ IdleGather

(***************************************************************************)
(* pick_project_inner as a process: one step per frame rendered and per    *)
(* event read.                                                             *)
(***************************************************************************)
tab_items(tab) == IF tab = "SessionsScoped" THEN sessions_scoped ELSE sessions_all

\* The filtered list of the current view
Filtered ==
    CASE view.kind = "Projects" -> filter_targets(targets, project_filter)
      [] view.kind \in {"SessionsScoped", "SessionsAll"} ->
            filter_sessions(tab_items(view.kind), sessions_filter)
      [] view.kind = "ProjectSessions" ->
            filter_sessions(view.sessions, project_sessions_filter)

codeVars == <<qVars, rdVars, mfVars, scVars, fdVars>>
tmVars == <<no_alt, term, guard, err>>

\* The top of the loop: terminal::size() reports a height, the cursor of the
\* view is clamped, the frame rendered
Render ==
    /\ upc = "render"
    /\ \E rows \in sizes :
        CASE view.kind = "Projects" ->
              /\ project_cursor' = clamp_tab(project_cursor, Len(Filtered))
              /\ frame' = Some(render_list(project_cursor', rows, Len(Filtered)))
              /\ UNCHANGED <<sessions_cursor, project_sessions_cursor>>
         [] view.kind \in {"SessionsScoped", "SessionsAll"} ->
              /\ sessions_cursor' = clamp_tab(sessions_cursor, Len(Filtered))
              /\ frame' = Some(render_list(sessions_cursor', rows, Len(Filtered)))
              /\ UNCHANGED <<project_cursor, project_sessions_cursor>>
         [] view.kind = "ProjectSessions" ->
              /\ project_sessions_cursor' = clamp_drill(project_sessions_cursor, Len(Filtered))
              /\ frame' = Some(render_list(project_sessions_cursor', rows, Len(Filtered) + 1))
              /\ UNCHANGED <<project_cursor, sessions_cursor>>
    /\ upc' = "poll"
    /\ ev' = None
    /\ UNCHANGED <<inVars, view, project_filter, sessions_filter,
                   project_sessions_filter, pick, kpos, entry, codeVars, tmVars>>

NoKeyResetsCursors ==
    /\ upc = "poll"
    /\ upc' = "render"
    /\ ev' = None
    /\ project_cursor' = 0 /\ sessions_cursor' = 0 /\ project_sessions_cursor' = 0
    /\ UNCHANGED <<inVars, view, project_filter, sessions_filter,
                   project_sessions_filter, pick, kpos, entry, frame, codeVars, tmVars>>

\* event::poll times out, or the event read is no key: the next iteration
NoKey ==
    /\ upc = "poll"
    /\ upc' = "render"
    /\ ev' = None
    /\ UNCHANGED <<inVars, view, project_filter, project_cursor, sessions_filter,
                   sessions_cursor, project_sessions_filter, project_sessions_cursor,
                   pick, kpos, entry, frame, codeVars, tmVars>>

\* event::read() yields the key k
Take(k) ==
    /\ upc = "poll"
    /\ IF keys.free THEN k \in FreeKeys
       ELSE kpos < Len(keys.script) /\ k = keys.script[kpos + 1]
    /\ kpos' = IF keys.free THEN kpos ELSE kpos + 1
    /\ ev' = Some(k)

AllKeys == FreeKeys \cup UNION {{sc[i] : i \in 1..Len(sc)} : sc \in Scripts}

\* Filters stay within MaxFilter characters while the keys are free
WithinBound(text) == keys.free => Len(text) <= MaxFilter

is_quit(k) == is_char(k, "q", "NONE") \/ is_char(k, "c", "CONTROL")
is_open_config(k) == is_char(k, "o", "NONE")
is_global_never(k, kind) == FALSE

\* the key is consumed by the global actions
is_global(k, kind) ==
    \/ k.code = "Esc" /\ kind # "ProjectSessions"
    \/ is_quit(k) \/ is_open_config(k)

\* return Ok(p): pick_project returns it and _guard is dropped
Returns(p) ==
    /\ pick' = Some(p) /\ upc' = "done"
    /\ term' = drop(term, guard)
    /\ guard' = None
    /\ UNCHANGED <<no_alt, err, frame>>

Continues ==
    /\ pick' = pick /\ upc' = "render"
    /\ UNCHANGED <<tmVars, frame>>

\* (KeyCode::Esc, _) in a tab
GlobalEsc ==
    \E k \in AllKeys :
        /\ Take(k)
        /\ k.code = "Esc" /\ view.kind # "ProjectSessions"
        /\ CASE view.kind = "Projects" -> Returns(Quit) /\ view' = view
             [] OTHER -> Continues /\ view' = TabView(esc_of(view.kind))
        /\ entry' = None
        /\ UNCHANGED <<inVars, project_filter, project_cursor, sessions_filter,
                       sessions_cursor, project_sessions_filter,
                       project_sessions_cursor, codeVars>>

\* q and Ctrl-C: return Ok(ProjectPick::Quit)
GlobalQuit ==
    \E k \in AllKeys :
        /\ Take(k)
        /\ is_quit(k)
        /\ Returns(Quit)
        /\ UNCHANGED <<inVars, view, project_filter, project_cursor, sessions_filter,
                       sessions_cursor, project_sessions_filter,
                       project_sessions_cursor, entry, codeVars>>

\* o: return Ok(ProjectPick::OpenConfig)
GlobalOpenConfig ==
    \E k \in AllKeys :
        /\ Take(k)
        /\ is_open_config(k)
        /\ Returns(OpenConfig)
        /\ UNCHANGED <<inVars, view, project_filter, project_cursor, sessions_filter,
                       sessions_cursor, project_sessions_filter,
                       project_sessions_cursor, entry, codeVars>>

\* View::Tab(Tab::Projects): handle_list_key and its outcome
ProjectsKey ==
    LET filtered == filter_targets(targets, project_filter)
        clamped == clamp_tab(project_cursor, Len(filtered))
    IN
    \E k \in AllKeys :
        /\ Take(k)
        /\ ~is_global(k, view.kind)
        /\ view.kind = "Projects"
        /\ LET h == handle_list_key(k, project_filter, clamped, Len(filtered), "Projects")
               t == selected_target(targets, filtered, h.cursor)
           IN  /\ project_filter' = h.filter
               /\ WithinBound(h.filter)
               /\ project_cursor' = h.cursor
               /\ CASE h.outcome = "Continue" ->
                         /\ Continues /\ view' = view /\ entry' = None
                         /\ UNCHANGED <<sessions_filter, sessions_cursor,
                                        project_sessions_filter, project_sessions_cursor>>
                    [] h.outcome = "SwitchTab" ->
                         /\ sessions_filter' = <<>> /\ sessions_cursor' = 0
                         /\ Continues /\ view' = TabView(h.tab) /\ entry' = None
                         /\ UNCHANGED <<project_sessions_filter, project_sessions_cursor>>
                    [] h.outcome = "Activate" /\ t # None ->
                         /\ project_sessions_filter' =
                                drill_entry(project_sessions_filter, project_sessions_cursor).filter
                         /\ project_sessions_cursor' =
                                drill_entry(project_sessions_filter, project_sessions_cursor).cursor
                         /\ view' = DrillView(t[1], sessions_for_target(env.markers, t[1],
                                                    sessions_all, per_project_limit))
                         /\ entry' = Some([filter |-> h.filter, cursor |-> h.cursor])
                         /\ Continues
                         /\ UNCHANGED <<sessions_filter, sessions_cursor>>
                    [] h.outcome = "StartNew" /\ t # None ->
                         /\ Returns(New(t[1])) /\ view' = view /\ entry' = None
                         /\ UNCHANGED <<sessions_filter, sessions_cursor,
                                        project_sessions_filter, project_sessions_cursor>>
                    [] OTHER ->
                         /\ Continues /\ view' = view /\ entry' = None
                         /\ UNCHANGED <<sessions_filter, sessions_cursor,
                                        project_sessions_filter, project_sessions_cursor>>
        /\ UNCHANGED <<inVars, codeVars>>

\* View::Tab(Tab::SessionsScoped) and View::Tab(Tab::SessionsAll)
SessionsKey ==
    LET items_ == tab_items(view.kind)
        filtered == filter_sessions(items_, sessions_filter)
        clamped == clamp_tab(sessions_cursor, Len(filtered))
    IN
    \E k \in AllKeys :
        /\ Take(k)
        /\ ~is_global(k, view.kind)
        /\ view.kind \in {"SessionsScoped", "SessionsAll"}
        /\ LET h == handle_list_key(k, sessions_filter, clamped, Len(filtered), view.kind)
               s == selected_session(items_, filtered, h.cursor)
           IN  /\ sessions_filter' = h.filter
               /\ WithinBound(h.filter)
               /\ sessions_cursor' = h.cursor
               /\ CASE h.outcome = "SwitchTab" -> Continues /\ view' = TabView(h.tab)
                    [] h.outcome = "Activate" /\ s # None -> Returns(Resume(s[1])) /\ view' = view
                    [] OTHER -> Continues /\ view' = view
        /\ entry' = None
        /\ UNCHANGED <<inVars, project_filter, project_cursor, project_sessions_filter,
                       project_sessions_cursor, codeVars>>

\* View::ProjectSessions: Esc and Left go back to the Projects tab
DrillBack ==
    \E k \in AllKeys :
        /\ Take(k)
        /\ ~is_global(k, view.kind)
        /\ view.kind = "ProjectSessions"
        /\ k.code \in {"Esc", "Left"}
        /\ view' = back_view
        /\ Continues
        /\ UNCHANGED <<inVars, project_filter, project_cursor, sessions_filter,
                       sessions_cursor, project_sessions_filter,
                       project_sessions_cursor, entry, codeVars>>

\* View::ProjectSessions: handle_project_sessions_key and its outcome
DrillKey ==
    LET filtered == filter_sessions(view.sessions, project_sessions_filter)
        clamped == clamp_drill(project_sessions_cursor, Len(filtered))
    IN
    \E k \in AllKeys :
        /\ Take(k)
        /\ ~is_global(k, view.kind)
        /\ view.kind = "ProjectSessions"
        /\ k.code \notin {"Esc", "Left"}
        /\ LET h == handle_project_sessions_key(k, project_sessions_filter, clamped,
                                                Len(filtered))
               s == selected_session(view.sessions, filtered, h.filtered_idx)
           IN  /\ project_sessions_filter' = h.filter
               /\ WithinBound(h.filter)
               /\ project_sessions_cursor' = h.cursor
               /\ CASE h.outcome = "StartNew" -> Returns(New(view.target[1]))
                    [] h.outcome = "Resume" /\ s # None -> Returns(Resume(s[1]))
                    [] OTHER -> Continues
        /\ UNCHANGED <<inVars, view, project_filter, project_cursor, sessions_filter,
                       sessions_cursor, entry, codeVars>>

NextPicker ==
    \/ Render \/ NoKey
    \/ GlobalEsc \/ GlobalQuit \/ GlobalOpenConfig
    \/ ProjectsKey \/ SessionsKey \/ DrillBack \/ DrillKey

SpecPicker == InitPicker /\ [][NextPicker]_vars

\* The picker on a terminal too low for its lists, whose height changes
\* from frame to frame
InitFrames ==
    /\ keys = [free |-> TRUE, script |-> <<>>]
    /\ targets = <<TargetW, TargetB, TargetA>>
    /\ sessions_all = <<SessionA1, SessionB1, SessionA2, SessionB2>>
    /\ per_project_limit = MaxPerProject
    /\ sessions_scoped = scoped_of(sessions_all)
    /\ cfg = ScanConfig
    /\ env = PickEnv
    /\ filter = [kind |-> "All", arg |-> <<>>]
    /\ view = TabView("Projects")
    /\ project_filter = <<>> /\ project_cursor = 0
    /\ sessions_filter = <<>> /\ sessions_cursor = 0
    /\ project_sessions_filter = <<>> /\ project_sessions_cursor = 0
    /\ upc = "render"
    /\ pick = None
    /\ kpos = 0
    /\ ev = None
    /\ entry = None
    /\ sizes = {0, MaxRows - 1, MaxRows} /\ frame = None
    /\ no_alt = FALSE
    /\ term = EnteredTerm
    /\ guard = Some([use_alt_screen |-> should_use_alt_screen])
    /\ err = None
    /\ IdleExtract /\ IdleFilter /\ IdleScan /\ IdleFind /\ IdleQuick /\ IdleGather

SpecFrames == InitFrames /\ [][NextPicker]_vars

\* /w/a/sub, a directory of the repository /w/a or a repository of its own
TargetSub == Target(CwdA \o <<"sub">>, <<"n", "n">>)

\* /w/a/sub is a repository inside the repository /w/a
NestedEnv == [home |-> Some(Home), markers |-> {CwdA, CwdA \o <<"sub">>}]

\* The picker over targets that are repositories, directories inside one
\* and directories outside any, or over one target that no filter text
\* with a p matches
InitDrill ==
    /\ keys = [free |-> TRUE, script |-> <<>>]
    /\ targets \in {<<TargetW, TargetSub, TargetA>>, <<TargetB>>}
    /\ sessions_all = <<SessionA1, SessionB1, SessionA2, SessionB2>>
    /\ per_project_limit \in 1..MaxPerProject
    /\ sessions_scoped = scoped_of(sessions_all)
    /\ cfg = ScanConfig
    /\ env \in {PickEnv, NestedEnv}
    /\ filter = [kind |-> "All", arg |-> <<>>]
    /\ view = TabView("Projects")
    /\ project_filter = <<>> /\ project_cursor = 0
    /\ sessions_filter = <<>> /\ sessions_cursor = 0
    /\ project_sessions_filter = <<>> /\ project_sessions_cursor = 0
    /\ upc = "render"
    /\ pick = None
    /\ kpos = 0
    /\ ev = None
    /\ entry = None
    /\ sizes = {MaxRows} /\ frame = None
    /\ no_alt = FALSE
    /\ term = EnteredTerm
    /\ guard = Some([use_alt_screen |-> should_use_alt_screen])
    /\ err = None
    /\ IdleExtract /\ IdleFilter /\ IdleScan /\ IdleFind /\ IdleQuick /\ IdleGather

SpecDrill == InitDrill /\ [][NextPicker]_vars

(***************************************************************************)
(* pick_project from its first line, on a terminal whose calls may fail    *)
(* and with a loop that may panic.                                         *)
(***************************************************************************)
InitTerminal ==
    /\ keys = [free |-> TRUE, script |-> <<>>]
    /\ targets = <<TargetA>>
    /\ sessions_all = <<SessionA1, SessionB1>>
    /\ per_project_limit = 1
    /\ sessions_scoped = scoped_of(sessions_all)
    /\ cfg = ScanConfig
    /\ env = PickEnv
    /\ filter = [kind |-> "All", arg |-> <<>>]
    /\ view = TabView("Projects")
    /\ project_filter = <<>> /\ project_cursor = 0
    /\ sessions_filter = <<>> /\ sessions_cursor = 0
    /\ project_sessions_filter = <<>> /\ project_sessions_cursor = 0
    /\ upc = "enter"
    /\ pick = None
    /\ kpos = 0
    /\ ev = None
    /\ entry = None
    /\ sizes = {MaxRows} /\ frame = None
    /\ no_alt \in BOOLEAN
    /\ term = CookedTerm
    /\ guard = None
    /\ err = None
    /\ IdleExtract /\ IdleFilter /\ IdleScan /\ IdleFind /\ IdleQuick /\ IdleGather

loopVars == <<inVars, view, project_filter, project_cursor, sessions_filter,
              sessions_cursor, project_sessions_filter, project_sessions_cursor,
              pick, kpos, ev, entry, frame>>

\* TerminalGuard::enter returns Ok(Self { use_alt_screen })
EnterOk ==
    /\ upc = "enter"
    /\ term' = EnteredTerm
    /\ guard' = Some([use_alt_screen |-> should_use_alt_screen])
    /\ upc' = "render"
    /\ UNCHANGED <<loopVars, no_alt, err, codeVars>>

\* pick_project returns Err(e) from TerminalGuard::enter(..)?: no guard exists
SetupFails(t) ==
    /\ term' = t
    /\ err' = Some("setup")
    /\ upc' = "failed"
    /\ UNCHANGED <<loopVars, no_alt, guard, codeVars>>

\* terminal::enable_raw_mode()? fails
EnterRawFails ==
    /\ upc = "enter"
    /\ SetupFails(term)

\* execute!(stdout, EnterAlternateScreen)? or execute!(stdout, Clear, MoveTo)?
\* fails after raw mode was enabled; the bytes written before the error may
\* or may not have switched the screen
EnterScreenFails ==
    /\ upc = "enter"
    /\ \E a \in {FALSE, should_use_alt_screen} :
           SetupFails([raw |-> TRUE, alt |-> a, hidden |-> FALSE])

\* execute!(stdout, cursor::Hide)? fails
EnterHideFails ==
    /\ upc = "enter"
    /\ \E h \in BOOLEAN :
           SetupFails([raw |-> TRUE, alt |-> should_use_alt_screen, hidden |-> h])

\* pick_project_inner ends without a pick: pick_project returns Err and
\* _guard is dropped
LoopFails(e) ==
    /\ err' = Some(e)
    /\ upc' = "failed"
    /\ term' = drop(term, guard)
    /\ guard' = None
    /\ UNCHANGED <<loopVars, no_alt, codeVars>>

\* terminal::size()? fails
SizeFails == upc = "render" /\ LoopFails("size")

\* render_projects(..)?, render_sessions(..)? or render_project_sessions(..)? fails
RenderFails == upc = "render" /\ LoopFails("render")

\* event::poll(..)? fails
PollFails == upc = "poll" /\ LoopFails("poll")

\* event::read()? fails
ReadFails == upc = "poll" /\ LoopFails("read")

\* a panic inside pick_project_inner: catch_unwind returns Err(_) and
\* pick_project bails
Panics == upc \in {"render", "poll"} /\ LoopFails("panic")

NextTerminal ==
    \/ EnterOk \/ EnterRawFails \/ EnterScreenFails \/ EnterHideFails
    \/ SizeFails \/ RenderFails \/ PollFails \/ ReadFails \/ Panics
    \/ NextPicker

SpecTerminal == InitTerminal /\ [][NextTerminal]_vars

(***************************************************************************)
(* gather_targets: the targets of the configured paths, of the git         *)
(* repositories right under the configured roots and of the repositories   *)
(* the scanned sessions ran in.  A created_at is the rank of its text in   *)
(* byte order, which is the order the code compares it by.                 *)
(***************************************************************************)
\* The bytes of the file names on the disk of the model
NameBytes ==
    [n \in {"/", "w", "a", "B", "c", ".h", "target", "f", "gone", "sub"} |->
        CASE n = "/" -> <<47>>
          [] n = "w" -> <<119>>
          [] n = "a" -> <<97>>
          [] n = "B" -> <<66>>
          [] n = "c" -> <<99>>
          [] n = ".h" -> <<46, 104>>
          [] n = "target" -> <<116, 97, 114, 103, 101, 116>>
          [] n = "f" -> <<102>>
          [] n = "gone" -> <<103, 111, 110, 101>>
          [] n = "sub" -> <<115, 117, 98>>]

\* str::to_lowercase on ASCII bytes
to_lowercase(bytes) ==
    [i \in 1..Len(bytes) |-> IF bytes[i] \in 65..90 THEN bytes[i] + 32 ELSE bytes[i]]

\* Ord for PathBuf: component by component
RECURSIVE path_less(_, _)
path_less(a, b) ==
    IF a = <<>> THEN b # <<>>
    ELSE IF b = <<>> THEN FALSE
    ELSE IF a[1] # b[1] THEN lex_less(NameBytes[a[1]], NameBytes[b[1]])
    ELSE path_less(Tail(a), Tail(b))

\* pathfmt::basename: the file name, or the whole path if it has none
display_name(path) == IF Len(path) > 1 THEN path[Len(path)] ELSE "/"

\* name.starts_with('.') or one of node_modules, target, dist, build
is_hidden_or_noise(path) ==
    LET name == path[Len(path)]
    IN  /\ Len(path) > 1
        /\ \/ NameBytes[name][1] = 46
           \/ name \in {"node_modules", "target", "dist", "build"}

is_git_repo_root(d, path) == path \in d.repos

\* cwd.is_dir() and then find_git_root(cwd)
infer_target_path_from_session_cwd(d, c) ==
    IF c \notin d.dirs THEN None ELSE find_git_root(d.repos, c)

ProjectTarget(path, kind, label, at, summary) ==
    [path |-> path, kind |-> kind, label |-> label,
     last_session_at |-> at, last_session_summary |-> summary]

insert(m, k, v) == [q \in DOMAIN m \cup {k} |-> IF q = k THEN v ELSE m[q]]

or_insert_overwrites(m, k, v) == insert(m, k, v)

\* map.entry(k).or_insert(v)
or_insert(m, k, v) == IF k \in DOMAIN m THEN m ELSE insert(m, k, v)

\* The directories read_dir(root) yields that become targets
repos_under(d, root) ==
    {q \in d.dirs :
        /\ Len(q) = Len(root) + 1 /\ SubSeq(q, 1, Len(root)) = root
        /\ ~is_hidden_or_noise(q)
        /\ is_git_repo_root(d, q)}

RECURSIVE or_insert_all(_, _)
or_insert_all(m, S) ==
    IF S = {} THEN m
    ELSE LET q == CHOOSE x \in S : TRUE
         IN  or_insert_all(or_insert(m, q, ProjectTarget(q, "RootChildGitRepo",
                                                         display_name(q), None, None)),
                           S \ {q})

replace_always(existing, s) == TRUE

\* let replace = match (&existing.last_session_at, &s.created_at) { .. }
replace(existing, s) ==
    CASE existing.last_session_at = None /\ s.created_at # None -> TRUE
      [] existing.last_session_at # None /\ s.created_at # None ->
            s.created_at[1] > existing.last_session_at[1]
      [] existing.last_session_at = None /\ s.created_at = None ->
            existing.last_session_summary = None
      [] OTHER -> FALSE

\* map.into_values(): in the order of the keys
RECURSIVE into_values(_)
into_values(m) ==
    IF DOMAIN m = {} THEN <<>>
    ELSE LET k == CHOOSE x \in DOMAIN m : \A y \in DOMAIN m \ {x} : path_less(x, y)
         IN  <<m[k]>> \o into_values([q \in DOMAIN m \ {k} |-> m[q]])

target_before_by_bytes(a, b) ==
    CASE a.last_session_at # None /\ b.last_session_at # None
            /\ a.last_session_at # b.last_session_at ->
            b.last_session_at[1] < a.last_session_at[1]
      [] a.last_session_at # None /\ b.last_session_at = None -> TRUE
      [] a.last_session_at = None /\ b.last_session_at # None -> FALSE
      [] OTHER -> lex_less(NameBytes[a.label], NameBytes[b.label])

\* The comparator of items.sort_by gives Less for (a, b)
target_before(a, b) ==
    CASE a.last_session_at # None /\ b.last_session_at # None
            /\ a.last_session_at # b.last_session_at ->
            b.last_session_at[1] < a.last_session_at[1]
      [] a.last_session_at # None /\ b.last_session_at = None -> TRUE
      [] a.last_session_at = None /\ b.last_session_at # None -> FALSE
      [] OTHER -> lex_less(to_lowercase(NameBytes[a.label]), to_lowercase(NameBytes[b.label]))

\* items.sort_by(..): stable
RECURSIVE sort_targets(_)
sort_targets(ts) ==
    IF ts = <<>> THEN <<>>
    ELSE LET first == CHOOSE i \in 1..Len(ts) :
                         /\ \A j \in 1..Len(ts) : ~target_before(ts[j], ts[i])
                         /\ \A j \in 1..(i - 1) : target_before(ts[i], ts[j])
             rest == [j \in 1..(Len(ts) - 1) |-> IF j < first THEN ts[j] ELSE ts[j + 1]]
         IN  <<ts[first]>> \o sort_targets(rest)

(***************************************************************************)
(* Inputs of gather_targets                                                *)
(***************************************************************************)
RootW == <<"/", "w">>
RepoA == <<"/", "w", "a">>
RepoB == <<"/", "w", "B">>
PlainC == <<"/", "w", "c">>
SubA == <<"/", "w", "a", "sub">>
FileF == <<"/", "w", "f">>
Gone == <<"/", "w", "gone">>

\* /w holds the repositories a, B, .h and target, the plain directory c and
\* the file f; a holds the directory sub
GatherDisk(unreadable) ==
    [dirs |-> {<<"/">>, RootW, RepoA, RepoB, PlainC, SubA,
               <<"/", "w", ".h">>, <<"/", "w", "target">>},
     files |-> {FileF},
     repos |-> {RepoA, RepoB, <<"/", "w", ".h">>, <<"/", "w", "target">>},
     unreadable |-> unreadable]

GatherConfigs ==
    [paths : {<<>>, <<RepoA>>, <<FileF, Gone, PlainC, RepoA>>},
     roots : {<<>>, <<RootW>>, <<Gone, FileF, RootW>>},
     from_sessions : {TRUE}]

ScannedSession(c, at, summary) == [cwd |-> c, created_at |-> at, summary |-> summary]

\* Sessions of sub-directory sub of a with every created_at and summary, one
\* of B, one of the plain directory, one of a directory that is gone
ScannedSessions ==
    {ScannedSession(SubA, at, sm) : at \in {None, Some(1), Some(2)}, sm \in {None, Some("x")}}
    \cup {ScannedSession(RepoB, Some(2), Some("y")),
          ScannedSession(PlainC, Some(2), Some("x")),
          ScannedSession(Gone, Some(1), Some("x"))}

InitGather ==
    /\ \/ /\ gcfg \in GatherConfigs
          /\ disk = GatherDisk({})
          /\ scanned \in {Ok(ss) : ss \in SeqsUpTo(ScannedSessions, MaxScanned)}
       \/ /\ gcfg \in {c \in GatherConfigs : c.paths = <<RepoA>>}
          /\ disk = GatherDisk({RootW})
          /\ scanned = Ok(<<ScannedSession(SubA, Some(1), None)>>)
       \/ /\ gcfg \in {c \in GatherConfigs : c.paths = <<RepoA>>}
          /\ disk = GatherDisk({})
          /\ scanned = Err
       \/ /\ gcfg \in {[c EXCEPT !.from_sessions = FALSE] :
                          c \in {d \in GatherConfigs : d.paths = <<RepoA>>}}
          /\ disk = GatherDisk({})
          /\ scanned = Ok(<<ScannedSession(SubA, Some(1), None)>>)
    /\ map = <<>>
    /\ gpc = "paths"
    /\ gi = 0
    /\ gret = Err
    /\ IdleQuery /\ IdleExtract /\ IdleFilter /\ IdleScan /\ IdleFind /\ IdlePicker
    /\ IdleQuick

nonGatherVars == <<cfg, env, filter, quickVars, rdVars, mfVars, scVars, fdVars, uiVars>>

\* if !p.exists() { continue; } if !p.is_dir() { continue; }
PathSkipped ==
    /\ gpc = "paths" /\ gi < Len(gcfg.paths)
    /\ gcfg.paths[gi + 1] \notin disk.dirs
    /\ gi' = gi + 1
    /\ UNCHANGED <<gcfg, disk, scanned, map, gpc, gret, nonGatherVars>>

\* map.entry(p.clone()).or_insert(ProjectTarget { kind: ExplicitPath, .. })
PathRegistered ==
    /\ gpc = "paths" /\ gi < Len(gcfg.paths)
    /\ gcfg.paths[gi + 1] \in disk.dirs
    /\ LET q == gcfg.paths[gi + 1]
       IN  map' = or_insert(map, q, ProjectTarget(q, "ExplicitPath", display_name(q),
                                                  None, None))
    /\ gi' = gi + 1
    /\ UNCHANGED <<gcfg, disk, scanned, gpc, gret, nonGatherVars>>

\* the loop over cfg.projects.paths ends
PathsDone ==
    /\ gpc = "paths" /\ gi = Len(gcfg.paths)
    /\ gpc' = "roots" /\ gi' = 0
    /\ UNCHANGED <<gcfg, disk, scanned, map, gret, nonGatherVars>>

\* if !root.exists() || !root.is_dir() { continue; }
RootSkipped ==
    /\ gpc = "roots" /\ gi < Len(gcfg.roots)
    /\ gcfg.roots[gi + 1] \notin disk.dirs
    /\ gi' = gi + 1
    /\ UNCHANGED <<gcfg, disk, scanned, map, gpc, gret, nonGatherVars>>

\* fs::read_dir(root).with_context(..)? fails
RootFails ==
    /\ gpc = "roots" /\ gi < Len(gcfg.roots)
    /\ gcfg.roots[gi + 1] \in disk.dirs
    /\ gcfg.roots[gi + 1] \in disk.unreadable
    /\ gret' = Err /\ gpc' = "done"
    /\ UNCHANGED <<gcfg, disk, scanned, map, gi, nonGatherVars>>

\* for ent in entries.flatten(): each git repository right under the root
RootListed ==
    /\ gpc = "roots" /\ gi < Len(gcfg.roots)
    /\ gcfg.roots[gi + 1] \in disk.dirs
    /\ gcfg.roots[gi + 1] \notin disk.unreadable
    /\ map' = or_insert_all(map, repos_under(disk, gcfg.roots[gi + 1]))
    /\ gi' = gi + 1
    /\ UNCHANGED <<gcfg, disk, scanned, gpc, gret, nonGatherVars>>

\* the loop over cfg.projects.roots ends and cfg.projects.from_sessions holds:
\* list_recent_sessions(..)? succeeds
RootsDone ==
    /\ gpc = "roots" /\ gi = Len(gcfg.roots)
    /\ gcfg.from_sessions /\ scanned.ok
    /\ gpc' = "sessions" /\ gi' = 0
    /\ UNCHANGED <<gcfg, disk, scanned, map, gret, nonGatherVars>>

\* list_recent_sessions(..)? fails
ScanFails ==
    /\ gpc = "roots" /\ gi = Len(gcfg.roots)
    /\ gcfg.from_sessions /\ ~scanned.ok
    /\ gret' = Err /\ gpc' = "done"
    /\ UNCHANGED <<gcfg, disk, scanned, map, gi, nonGatherVars>>

\* if inferred.is_none() { continue; }
SessionSkipped ==
    /\ gpc = "sessions" /\ gi < Len(scanned.val)
    /\ infer_target_path_from_session_cwd(disk, scanned.val[gi + 1].cwd) = None
    /\ gi' = gi + 1
    /\ UNCHANGED <<gcfg, disk, scanned, map, gpc, gret, nonGatherVars>>

\* Some(existing): the metadata is upgraded if replace holds
SessionUpgrades ==
    /\ gpc = "sessions" /\ gi < Len(scanned.val)
    /\ LET s == scanned.val[gi + 1]
           inferred == infer_target_path_from_session_cwd(disk, s.cwd)
       IN  /\ inferred # None
           /\ inferred[1] \in DOMAIN map
           /\ map' = IF replace(map[inferred[1]], s)
                     THEN [map EXCEPT ![inferred[1]].last_session_at = s.created_at,
                                      ![inferred[1]].last_session_summary = s.summary]
                     ELSE map
    /\ gi' = gi + 1
    /\ UNCHANGED <<gcfg, disk, scanned, gpc, gret, nonGatherVars>>

\* None: map.insert(inferred, ProjectTarget { kind: SessionHistory, .. })
SessionRegisters ==
    /\ gpc = "sessions" /\ gi < Len(scanned.val)
    /\ LET s == scanned.val[gi + 1]
           inferred == infer_target_path_from_session_cwd(disk, s.cwd)
       IN  /\ inferred # None
           /\ inferred[1] \notin DOMAIN map
           /\ map' = insert(map, inferred[1],
                            ProjectTarget(inferred[1], "SessionHistory",
                                          display_name(inferred[1]),
                                          s.created_at, s.summary))
    /\ gi' = gi + 1
    /\ UNCHANGED <<gcfg, disk, scanned, gpc, gret, nonGatherVars>>

\* items = map.into_values().collect(); items.sort_by(..); Ok(items)
GatherReturns ==
    /\ \/ gpc = "sessions" /\ gi = Len(scanned.val)
       \/ gpc = "roots" /\ gi = Len(gcfg.roots) /\ ~gcfg.from_sessions
    /\ gret' = Ok(sort_targets(into_values(map)))
    /\ gpc' = "done"
    /\ UNCHANGED <<gcfg, disk, scanned, map, gi, nonGatherVars>>

NextGather ==
    \/ PathSkipped \/ PathRegistered \/ PathsDone
    \/ RootSkipped \/ RootFails \/ RootListed \/ RootsDone \/ ScanFails
    \/ SessionSkipped \/ SessionUpgrades \/ SessionRegisters
    \/ GatherReturns

SpecGather == InitGather /\ [][NextGather]_vars

(***************************************************************************)
(* The quick actions: launch_by_query and resume_by_query, from the        *)
(* candidates the matcher scored to the one chosen.                        *)
(***************************************************************************)
\* top_score >= second_score + 25
Margin == 25
\* .take(12) in choose_target
TargetOptions == 12
\* .take(20) in choose_session
SessionOptions == 20

confident_beyond_margin(top_score, second_score) == top_score > second_score + Margin

confident(top_score, second_score) == top_score >= second_score + Margin

\* scored.into_iter().take(n)
take(s, n) == SubSeq(s, 1, Min(n, Len(s)))

prompt_size(kind) == IF kind = "target" THEN TargetOptions ELSE SessionOptions

\* The gaps between the best score and the next, and the places of the two
\* best candidates in the list the matcher went through
Gaps == {0, 10, 24, 25, 40}
Rotations == {0, 1, 5}

\* n candidates as (score, item) pairs in the order of the list scored: one
\* of score 100, one a gap below it, the others at most as high as that
Candidates(n, gap, rot) ==
    [i \in 1..n |->
        <<(IF i = 1 + (rot % n) THEN 100
           ELSE IF i = 1 + ((rot + 1) % n) THEN 100 - gap
           ELSE 100 - gap - ((i * 7) % 5)),
          i>>]

InitQuick ==
    /\ qkind \in {"target", "session"}
    /\ \E n \in 0..MaxCandidates, gap \in Gaps, rot \in Rotations :
           scored = Candidates(n, gap, rot)
    /\ options = None
    /\ qpc = "sort"
    /\ qret = Err
    /\ IdleQuery /\ IdleExtract /\ IdleFilter /\ IdleScan /\ IdleFind /\ IdlePicker
    /\ IdleGather

nonQuickVars == <<cfg, env, filter, gatherVars, rdVars, mfVars, scVars, fdVars, uiVars>>

\* scored.sort_by(|a, b| b.0.cmp(&a.0)) on candidates
QuerySort ==
    /\ qpc = "sort" /\ scored # <<>>
    /\ scored' = sort_by_score_desc(scored)
    /\ qpc' = "choose"
    /\ UNCHANGED <<qkind, options, qret, nonQuickVars>>

\* if scored.is_empty() { bail!(..) }
QueryNoMatch ==
    /\ qpc = "sort" /\ scored = <<>>
    /\ qret' = Err
    /\ qpc' = "done"
    /\ UNCHANGED <<qkind, scored, options, nonQuickVars>>

\* if scored.len() == 1 { return Ok(scored.remove(0).1) }
ChooseOnly ==
    /\ qpc = "choose" /\ Len(scored) = 1
    /\ qret' = Ok(scored[1][2])
    /\ qpc' = "done"
    /\ UNCHANGED <<qkind, scored, options, nonQuickVars>>

\* if top_score >= second_score + 25 { return Ok(top) }
ChooseTop ==
    /\ qpc = "choose" /\ Len(scored) # 1
    /\ confident(scored[1][1], scored[2][1])
    /\ qret' = Ok(scored[1][2])
    /\ qpc' = "done"
    /\ UNCHANGED <<qkind, scored, options, nonQuickVars>>

\* ui::pick_target(&options) or ui::pick_session(&options) is called
ChooseAsks ==
    /\ qpc = "choose" /\ Len(scored) # 1
    /\ ~confident(scored[1][1], scored[2][1])
    /\ LET shown == take(scored, prompt_size(qkind))
       IN  options' = Some([i \in 1..Len(shown) |-> shown[i][2]])
    /\ qpc' = "prompt"
    /\ UNCHANGED <<qkind, scored, qret, nonQuickVars>>

\* Select::prompt() returns the option the user picked
PromptPicked ==
    /\ qpc = "prompt"
    /\ \E i \in 1..Len(options[1]) : qret' = Ok(options[1][i])
    /\ qpc' = "done"
    /\ UNCHANGED <<qkind, scored, options, nonQuickVars>>

\* Select::prompt()? fails or is cancelled
PromptFails ==
    /\ qpc = "prompt"
    /\ qret' = Err
    /\ qpc' = "done"
    /\ UNCHANGED <<qkind, scored, options, nonQuickVars>>

NextQuick ==
    \/ QuerySort \/ QueryNoMatch
    \/ ChooseOnly \/ ChooseTop \/ ChooseAsks
    \/ PromptPicked \/ PromptFails

SpecQuick == InitQuick /\ [][NextQuick]_vars

(***************************************************************************)
(* Claims about the record extractor (checked under SpecExtract).          *)
(***************************************************************************)

Extracted == rpc = "done" /\ ret.ok /\ ret.val # None

\* Line i of the file carries a user-message text.
IsUserText(line) ==
    /\ line.kind = "json" /\ line.type = Some("response_item")
    /\ line.payload # None
    /\ line.payload[1].type = Some("message")
    /\ line.payload[1].role = Some("user")
    /\ extract_text_from_message_payload(line.payload[1]) # None

TextOf(line) == extract_text_from_message_payload(line.payload[1])[1]

\* Positions, among the first n lines, of the user texts that are not boilerplate.
Preferred(ls, n) ==
    {i \in 1..Min(Len(ls), n) : IsUserText(ls[i]) /\ ~looks_like_boilerplate(TextOf(ls[i]))}

UserTextsIn(ls, n) == {i \in 1..Min(Len(ls), n) : IsUserText(ls[i])}

First(S) == CHOOSE i \in S : \A j \in S : i <= j

\* C4: every record produced by the extractor has a non-empty id and a cwd.
C4_RecordHasNonEmptyId ==
    Extracted => ret.val[1].id # "" /\ Len(ret.val[1].cwd) >= 0

\* C5 as stated: the summary of an extracted record is derived from the first
\* user text of the file, in file order, that is not boilerplate.
C5_SummaryFromFirstPreferredInFile ==
    (Extracted /\ Preferred(lines.lines, Len(lines.lines)) # {})
    => ret.val[1].summary =
         Some(normalize_summary(TextOf(lines.lines[First(Preferred(lines.lines, Len(lines.lines)))])))

\* C5 amended: the summary of an extracted record is derived from the first
\* user text, among the lines within the line cap, that is not boilerplate,
\* even when boilerplate user texts precede it.
C5_SummaryFromFirstPreferredWithinCap ==
    (Extracted /\ Preferred(lines.lines, LineCap) # {})
    => ret.val[1].summary =
         Some(normalize_summary(TextOf(lines.lines[First(Preferred(lines.lines, LineCap))])))

C5_Witness ==
    /\ Extracted
    /\ lines.lines = <<MetaFull, UserEnv, UserFix>>
    /\ ret.val[1].summary = Some(<<"fix", "SP", "bug">>)

\* C6: when a file has id, cwd and user texts that all look like boilerplate,
\* the summary of its record is derived from the first user text.
C6_FallbackToFirstUserText ==
    (/\ Extracted
     /\ UserTextsIn(lines.lines, LineCap) # {}
     /\ Preferred(lines.lines, Len(lines.lines)) = {})
    => ret.val[1].summary =
         Some(normalize_summary(TextOf(lines.lines[First(UserTextsIn(lines.lines, LineCap))])))

\* read_session_meta without the early stop: every line up to the cap.
RECURSIVE read_every_line(_, _, _)
read_every_line(acc, ls, n) ==
    IF n >= Len(ls) \/ n >= LineCap THEN [ok |-> TRUE, acc |-> acc]
    ELSE LET r == process_line(acc, ls[n + 1])
         IN  IF r.ctl = "err" THEN [ok |-> FALSE, acc |-> acc]
             ELSE read_every_line(r.acc, ls, n + 1)

WithoutEarlyStop(path, file) ==
    IF ~file.openable THEN Err
    ELSE LET r == read_every_line(InitLocals, file.lines, 0)
         IN  IF ~r.ok THEN Err ELSE build_item(path, r.acc)

Unread == {i \in (taken + 1)..Min(Len(lines.lines), LineCap) : TRUE}

delete_unparsable(ls) == SelectSeq(ls, LAMBDA l : l.kind # "garbage")

\* C8: a line that fails to parse as JSON is skipped: for a file within the
\* line cap, the record extracted equals the record extracted from the file
\* with its unparsable lines deleted.
C8_UnparsableLinesSkipped ==
    (rpc = "done" /\ Len(lines.lines) <= LineCap)
    => ret = read_session_meta(SamplePath, [lines EXCEPT !.lines = delete_unparsable(@)])

C8_Witness ==
    /\ Extracted
    /\ lines.lines = <<MetaFull, RawLine("garbage"), UserFix>>
    /\ ret.val[1].id = "s1"
    /\ ret.val[1].summary = Some(<<"fix", "SP", "bug">>)

\* The loop of read_session_meta with no cap on the lines it reads
RECURSIVE read_uncapped(_, _, _)
read_uncapped(acc, ls, n) ==
    IF n >= Len(ls) THEN [ok |-> TRUE, acc |-> acc]
    ELSE LET r == process_line(acc, ls[n + 1])
         IN  IF r.ctl = "err" THEN [ok |-> FALSE, acc |-> acc]
             ELSE IF r.ctl = "check" /\ stop_early(r.acc) THEN [ok |-> TRUE, acc |-> r.acc]
             ELSE read_uncapped(r.acc, ls, n + 1)

\* What the extractor without a cap yields for the first lines of the file,
\* as many as the cap, whatever they are
OfFirstLines(path, file) ==
    IF ~file.openable THEN Err
    ELSE LET r == read_uncapped(InitLocals,
                                SubSeq(file.lines, 1, Min(Len(file.lines), LineCap)), 0)
         IN  IF ~r.ok THEN Err ELSE build_item(path, r.acc)

\* Positions of the metadata lines among the first n lines
MetaLinesIn(ls, n) ==
    {i \in 1..Min(Len(ls), n) : ls[i].kind = "json" /\ ls[i].type = Some("session_meta")}

\* C32: the extractor never takes more lines than the cap, counting blank and
\* unparsable lines; what it returns is decided by the first lines of the
\* file, as many as the cap, alone (so files that agree on them yield the
\* same); and a file with no metadata line among them yields no record.
C32_OnlyLinesWithinCapCount ==
    /\ taken <= LineCap
    /\ rpc = "done" => ret = OfFirstLines(SamplePath, lines)
    /\ (rpc = "done" /\ ret.ok /\ MetaLinesIn(lines.lines, LineCap) = {}) => ret.val = None

\* The only metadata line is behind blank and unparsable lines as many as
\* the cap: no record
C32_Witness ==
    /\ rpc = "done" /\ taken = LineCap
    /\ lines.lines = Padding \o <<MetaFull>>
    /\ ret = Ok(None)

\* Positions, among the first n lines, of the metadata lines that carry both
\* an id and a cwd
FullMetaLinesIn(ls, n) ==
    {i \in MetaLinesIn(ls, n) :
        /\ ls[i].payload # None
        /\ ls[i].payload[1].id # None /\ ls[i].payload[1].cwd # None}

\* C33: every file that read_session_meta reads without an error and that
\* holds, within the line cap, a metadata line carrying both an id and a cwd
\* yields a record: no later line takes the id or the cwd away.
C33_FullMetaLineYieldsRecord ==
    (rpc = "done" /\ ret.ok /\ FullMetaLinesIn(lines.lines, LineCap) # {})
    => ret.val # None

(***************************************************************************)
(* Claims about the query filters (checked under SpecFilter).              *)
(***************************************************************************)
\* dir is p itself or one of its ancestors
InSubtree(p, dir) == \E k \in 0..Len(p) : SubSeq(p, 1, k) = dir

Targets(c) == {c.paths[i] : i \in 1..Len(c.paths)} \cup {c.roots[i] : i \in 1..Len(c.roots)}

Height(p) == IF p # <<>> /\ p[1] = "/" THEN Len(p) - 1 ELSE Len(p)

Ancestor(p, k) == SubSeq(p, 1, Len(p) - k)

\* The levels, among the cwd and its first 24 ancestors, that hold a marker
MarkedLevels(p, markers) ==
    {k \in 0..Min(24, Height(p)) : Ancestor(p, k) \in markers}

\* C10: ForRepoRoot(root) accepts a record exactly when the nearest directory
\* holding a repository marker, among the cwd and at most 24 ancestors,
\* equals root; a nearer nested repository or a marker beyond the bound
\* makes it reject.
C10_ForRepoRootNearestMarker ==
    (mpc = "done" /\ filter.kind = "ForRepoRoot") =>
        LET levels == MarkedLevels(cwd, env.markers)
        IN  accepted <=>
              /\ levels # {}
              /\ Ancestor(cwd, First(levels)) = filter.arg

\* The marker is found on the last level of the walk, nearer than an outer one.
C10_Witness ==
    /\ mpc = "done" /\ filter.kind = "ForRepoRoot" /\ accepted
    /\ cwd = Deep(25) /\ filter.arg = Deep(1)
    /\ env.markers = {Deep(0), Deep(1)}
    /\ hops = 24

(***************************************************************************)
(* Claims about the session index (checked under SpecScan).                *)
(***************************************************************************)
\* The log files of the corpus: files with a log file's name in a day
\* directory of a month directory of a year directory.
LogFiles ==
    {p \in DOMAIN corpus.entries :
        /\ Len(p) = 4
        /\ corpus.entries[p].type = "file" /\ is_rollout_name(p[4])
        /\ \A k \in 1..3 :
              /\ corpus.entries[SubSeq(p, 1, k)].type = "dir"
              /\ is_date_name(p[k])}

\* The log files that yield a record satisfying the query's predicate
Matching ==
    {p \in LogFiles :
        /\ Session(p).ok /\ Session(p).val # None
        /\ matches_filter(cfg, env, filter, Session(p).val[1].cwd)}

\* p comes before q newest-first: at the first level where they differ, the
\* name of p is the greater.
Newer(p, q) ==
    \E k \in 1..4 :
        /\ SubSeq(p, 1, k - 1) = SubSeq(q, 1, k - 1)
        /\ lex_less(q[k], p[k])

Returned == spc = "done" /\ sret.ok

\* C1: list(query) with limit L returns exactly min(L, M) records, M being the
\* number of log files yielding a record that satisfies the predicate; they
\* are the min(L, M) newest matching records, newest first.
C1_ListReturnsNewestMatching ==
    Returned =>
        /\ Len(sret.val) = Min(limit, Cardinality(Matching))
        /\ \A i \in 1..Len(sret.val) :
              /\ sret.val[i].path \in Matching
              /\ sret.val[i] = Session(sret.val[i].path).val[1]
              /\ Cardinality({q \in Matching : Newer(q, sret.val[i].path)}) = i - 1

\* Two of three scoped sessions are returned, a session out of scope skipped.
C1_Witness ==
    /\ Returned /\ filter.kind = "Scoped"
    /\ limit = 2 /\ Len(sret.val) = 2
    /\ Cardinality(Matching) = 2
    /\ Cardinality(LogFiles) = 3
    /\ Len(opened) = 3

\* C2: once `limit` matching records have been collected, no further log file
\* is opened and no further directory is listed before the call returns.
C2_NothingScannedAfterLimit ==
    [][(spc = "loop" /\ limit > 0 /\ Len(items) >= limit)
        => (opened' = opened /\ listed' = listed)]_vars

\* C3: log files are visited newest first (descending year, month, day and
\* file name), so of two returned records the earlier has the greater path.
C3_VisitedNewestFirst ==
    /\ \A i, j \in 1..Len(opened) : i < j => Newer(opened[i], opened[j])
    /\ \A i, j \in 1..Len(items) :
         i < j => (Newer(items[i].path, items[j].path) \/ items[i].path = items[j].path)

\* Three files of three different years, months or days were visited, the
\* two-digit year first.
C3_Witness ==
    /\ Returned /\ Len(opened) = 3 /\ Len(sret.val) = 2
    /\ opened[1][1] = Y99
    /\ opened[2][2] # opened[3][2]

(***************************************************************************)
(* Claims about find_session_by_id (checked under SpecFind).               *)
(***************************************************************************)
\* The log files yielding a record whose id is the id looked for
WithId ==
    {p \in LogFiles :
        /\ Session(p).ok /\ Session(p).val # None
        /\ Session(p).val[1].id = id}

Found == fpc = "done" /\ fret.ok

\* C11: find_by_id(id), when it returns, returns the record of the newest log
\* file whose record has exactly that id, whatever its cwd and however many
\* files there are; it returns nothing only when no log file of the corpus
\* yields a record with that id.
C11_FindReturnsFirstWithId ==
    Found =>
        IF WithId = {} THEN fret.val = None
        ELSE /\ fret.val # None
             /\ fret.val[1].path \in WithId
             /\ fret.val[1] = Session(fret.val[1].path).val[1]
             /\ \A q \in WithId : ~Newer(q, fret.val[1].path)

\* The id is that of two log files; a newer file with another id and a file
\* without a record were passed before the first of the two was returned.
C11_Witness ==
    /\ Found /\ fret.val # None
    /\ Cardinality(WithId) = 2
    /\ Len(fopened) = 3
    /\ Cardinality(LogFiles) >= 3

(***************************************************************************)
(* Claims about the picker (checked under SpecPicker).  A frame is         *)
(* rendered, and a key handled, in the states with upc = "poll".           *)
(***************************************************************************)
SessionTabs == {"SessionsScoped", "SessionsAll"}

\* The cursor of the current view
Cursor ==
    CASE view.kind = "Projects" -> project_cursor
      [] view.kind \in SessionTabs -> sessions_cursor
      [] view.kind = "ProjectSessions" -> project_sessions_cursor

\* C12 (as stated): whenever a frame is rendered or a key handled, the cursor
\* of a tab view is less than the number of filtered rows and the cursor of
\* the drill-down is at most the number of filtered rows.
C12_CursorInRange ==
    upc = "poll" =>
        IF view.kind = "ProjectSessions" THEN Cursor <= Len(Filtered)
        ELSE Cursor < Len(Filtered)

\* C12 (amended): whenever a frame is rendered or a key handled, the cursor of
\* a tab view whose filtered list is not empty is less than the number of
\* filtered rows, and the cursor of the drill-down is at most the number of
\* filtered rows (row 0 being the start-new-session row).
C12_CursorInRangeWhenNonEmpty ==
    upc = "poll" =>
        IF view.kind = "ProjectSessions" THEN Cursor <= Len(Filtered)
        ELSE Filtered # <<>> => Cursor < Len(Filtered)

\* A sessions tab shows its last row selected, reached from the longer list
\* of the other sessions tab.
C12_Witness ==
    /\ upc = "poll" /\ view.kind = "SessionsScoped"
    /\ ev = None
    /\ Len(Filtered) = 2 /\ Cursor = 1
    /\ Len(sessions_all) = 4 /\ sessions_filter = <<>>

Tabs == {"Projects", "SessionsScoped", "SessionsAll"}

\* The filter text and the cursor the code keeps for a tab
TabFilter(tab) == IF tab = "Projects" THEN project_filter ELSE sessions_filter
TabCursor(tab) == IF tab = "Projects" THEN project_cursor ELSE sessions_cursor

\* C13: while another view is current, no step changes the filter text or
\* the cursor of the Projects tab, of the SessionsScoped tab or of the
\* SessionsAll tab, so a tab is found as it was left.
C13_TabsOwnFilterAndCursor ==
    [][\A tab \in Tabs :
          view.kind # tab =>
              /\ TabFilter(tab)' = TabFilter(tab)
              /\ TabCursor(tab)' = TabCursor(tab)]_vars

\* C14: Right goes from Projects to SessionsScoped and from SessionsScoped to
\* SessionsAll; Left and Esc go from SessionsScoped to Projects; Left goes
\* from SessionsAll to SessionsScoped; Left on Projects and Right on
\* SessionsAll keep the tab.
C14_TabNavigation ==
    [][(upc = "poll" /\ ev' # None) =>
          LET k == ev'[1]
          IN  /\ (view.kind = "Projects" /\ k.code = "Right")
                    => (view' = TabView("SessionsScoped") /\ pick' = None)
              /\ (view.kind = "SessionsScoped" /\ k.code = "Right")
                    => (view' = TabView("SessionsAll") /\ pick' = None)
              /\ (view.kind = "SessionsScoped" /\ k.code \in {"Left", "Esc"})
                    => (view' = TabView("Projects") /\ pick' = None)
              /\ (view.kind = "SessionsAll" /\ k.code = "Left")
                    => (view' = TabView("SessionsScoped") /\ pick' = None)
              /\ (view.kind = "Projects" /\ k.code = "Left")
                    => (view' = view /\ pick' = None)
              /\ (view.kind = "SessionsAll" /\ k.code = "Right")
                    => (view' = view /\ pick' = None)
      ]_vars

\* Right was pressed on SessionsScoped: the SessionsAll tab is current.
C14_Witness ==
    /\ upc = "render" /\ ev = Some(Key("Right"))
    /\ view = TabView("SessionsAll")
    /\ sessions_filter # <<>>

\* C15: from the entry into the drill-down until the first key handled in the
\* Projects tab after it, the Projects filter and cursor are those of the
\* entry, and Esc or Left in the drill-down makes Projects the current tab.
C15_ProjectsStateKeptAcrossDrillDown ==
    /\ entry # None =>
          /\ project_filter = entry[1].filter
          /\ project_cursor = entry[1].cursor
    /\ (entry # None /\ ev # None /\ ev[1].code \in {"Esc", "Left"}) =>
          view = TabView("Projects")

\* Back on Projects, its frame rendered, after a drill-down whose filter was
\* edited; the Projects tab has its filter and its cursor on the second row.
C15_Witness ==
    /\ view = TabView("Projects") /\ entry # None
    /\ ev = None /\ upc = "poll"
    /\ project_filter # <<>> /\ project_cursor = 1
    /\ project_sessions_filter # <<>>

\* C16: every step from the Projects tab into the drill-down leaves the
\* drill-down's filter text empty and its cursor on row 0.
C16_DrillDownEnteredFresh ==
    [][(view.kind = "Projects" /\ view'.kind = "ProjectSessions") =>
          (project_sessions_filter' = <<>> /\ project_sessions_cursor' = 0)]_vars

\* A drill-down just entered with Enter on the second row of the Projects
\* tab, empty filter and cursor on the start-new-session row.
C16_Witness ==
    /\ view.kind = "ProjectSessions" /\ upc = "render"
    /\ ev = Some(Key("Enter")) /\ project_cursor = 1
    /\ project_sessions_filter = <<>> /\ project_sessions_cursor = 0
    /\ Len(view.sessions) = 2

\* The keys that edit the filter text in the view of kind `kind`
IsEdit(k, kind) ==
    /\ ~is_global(k, kind)
    /\ \/ k.code = "Backspace"
       \/ is_char(k, "u", "CONTROL")
       \/ /\ k.code = "Char" /\ k.mods = "NONE" /\ ~is_control(k.ch)
          /\ k.ch \notin {"j", "k"}
          /\ ~(k.ch = "n" /\ kind = "Projects")

C18_GlobalKeysShortCircuit ==
    [][(upc = "poll" /\ ev' # None /\ (is_quit(ev'[1]) \/ is_open_config(ev'[1]))) =>
          /\ upc' = "done"
          /\ pick' = Some(IF is_quit(ev'[1]) THEN Quit ELSE OpenConfig)
          /\ view' = view
          /\ project_filter' = project_filter /\ project_cursor' = project_cursor
          /\ sessions_filter' = sessions_filter /\ sessions_cursor' = sessions_cursor
          /\ project_sessions_filter' = project_sessions_filter
          /\ project_sessions_cursor' = project_sessions_cursor
      ]_vars

\* o was pressed in a drill-down with a filter: the picker ended with
\* OpenConfig.
C18_Witness ==
    /\ upc = "done" /\ pick = Some(OpenConfig)
    /\ ev = Some(Char("o"))
    /\ view.kind = "ProjectSessions"
    /\ project_sessions_filter # <<>>

\* The target at position i (from 0) of the targets filtered by text
FilteredTarget(text, i) == targets[filter_targets(targets, text)[i + 1] + 1]

\* The script has been read to its end, or the picker has returned
ScriptOver == upc = "done" \/ (kpos = Len(keys.script) /\ upc = "render")

\* C19: the keys p, r, o, j, Down, Down, Enter on five targets of which three
\* match "proj" leave the picker running in the drill-down of the target at
\* position 1 of the filtered list.
C19_ProjScriptOpensFilteredIndexOne ==
    (~keys.free /\ keys.script = ProjScript /\ ScriptOver) =>
        /\ upc = "render" /\ pick = None
        /\ project_filter = <<"p", "r", "o", "j">>
        /\ view.kind = "ProjectSessions"
        /\ view.target = Some(FilteredTarget(<<"p", "r", "o", "j">>, 1))

\* C20: Enter in SessionsScoped or SessionsAll, the filtered list not empty,
\* ends the picker with Resume of the session at the cursor's position in
\* the filtered list of that tab; Enter in the drill-down ends it with New of
\* the drill-down's target when the cursor is on row 0, else with Resume of
\* the session at position cursor - 1 of the drill-down's filtered list.
C20_EnterResolvesByViewAndCursor ==
    [][(upc = "poll" /\ ev' = Some(Key("Enter"))) =>
          CASE view.kind \in SessionTabs ->
                  Filtered # <<>> =>
                      /\ upc' = "done"
                      /\ pick' = Some(Resume(tab_items(view.kind)[Filtered[Cursor + 1] + 1]))
            [] view.kind = "ProjectSessions" ->
                  /\ upc' = "done"
                  /\ pick' = IF Cursor = 0 THEN Some(New(view.target[1]))
                             ELSE Some(Resume(view.sessions[Filtered[Cursor] + 1]))
            [] OTHER -> TRUE
      ]_vars

\* Enter on the third row of the SessionsAll tab filtered by "p": the fourth
\* session of the list is resumed, the third one not matching.
C20_Witness ==
    /\ upc = "done" /\ ev = Some(Key("Enter"))
    /\ view.kind = "SessionsAll"
    /\ sessions_filter = <<"p">> /\ sessions_cursor = 2
    /\ pick = Some(Resume(SessionB2))
    /\ sessions_all[3] = SessionA2

\* The steps of a loop iteration that receives no key: the top of the loop
\* (size, clamp, render) and the poll or read that yields no key
NoKeyIterationStep == upc = "render" \/ (upc = "poll" /\ ev' = None)

AllFilters == <<project_filter, sessions_filter, project_sessions_filter>>
AllCursors == <<project_cursor, sessions_cursor, project_sessions_cursor>>

\* The last row the cursor of the current view may rest on; -1 if none
LastRow == IF view.kind = "ProjectSessions" THEN Len(Filtered) ELSE Len(Filtered) - 1

\* The cursor of the current view lies beyond the last row
Stale == LastRow >= 0 /\ Cursor > LastRow

IdentityIndices(n) == [i \in 1..n |-> i - 1]

\* The items an index list selects, in its order
Selected(list, idx) == [i \in 1..Len(idx) |-> list[idx[i] + 1]]

\* The session lists the picker filters
SessionListsShown == {sessions_scoped, sessions_all, view.sessions}

\* C23: with empty filter text, filter_targets and filter_sessions return the
\* identity index list 0..n-1 of the list they are given, so every item in
\* its original order, and filtering the items so selected once more gives
\* the same again.
C23_EmptyFilterKeepsOrder ==
    /\ filter_targets(targets, <<>>) = IdentityIndices(Len(targets))
    /\ Selected(targets, filter_targets(targets, <<>>)) = targets
    /\ filter_targets(Selected(targets, filter_targets(targets, <<>>)), <<>>)
          = filter_targets(targets, <<>>)
    /\ \A ss \in SessionListsShown :
          /\ filter_sessions(ss, <<>>) = IdentityIndices(Len(ss))
          /\ Selected(ss, filter_sessions(ss, <<>>)) = ss
          /\ filter_sessions(Selected(ss, filter_sessions(ss, <<>>)), <<>>)
                = filter_sessions(ss, <<>>)
    /\ upc = "poll" /\ view.kind = "Projects" /\ project_filter = <<>>
          => Filtered = IdentityIndices(Len(targets))
    /\ upc = "poll" /\ view.kind \in SessionTabs /\ sessions_filter = <<>>
          => Filtered = IdentityIndices(Len(tab_items(view.kind)))
    /\ upc = "poll" /\ view.kind = "ProjectSessions" /\ project_sessions_filter = <<>>
          => Filtered = IdentityIndices(Len(view.sessions))

\* A frame of three sessions or more is rendered with an empty filter, every
\* session a row in the order given, the cursor below the first row
C23_Witness ==
    /\ upc = "poll" /\ view.kind = "SessionsAll"
    /\ sessions_filter = <<>> /\ Len(sessions_all) >= 3
    /\ sessions_cursor > 0
    /\ Filtered = IdentityIndices(Len(sessions_all))

(***************************************************************************)
(* Claims about the terminal (checked under SpecTerminal).                 *)
(***************************************************************************)
\* pick_project has returned, with a pick or with an error
PickProjectReturned == upc \in {"done", "failed"}

\* C21: once pick_project has returned, by any exit path (a pick, an error
\* from terminal setup, rendering or event reading, a caught panic), the
\* terminal is restored: raw mode disabled, alternate screen left, cursor
\* shown.  A call that never enabled raw mode leaves the terminal as it was.
C21_TerminalRestoredOnReturn == PickProjectReturned => term = CookedTerm

\* The exit paths on which a guard existed: the terminal is restored
C21_RestoredWhenGuarded ==
    PickProjectReturned /\ (pick # None \/ err \in {Some(e) : e \in {"size", "render", "poll", "read", "panic"}})
        => term = CookedTerm

(***************************************************************************)
(* Claims about both walks of the corpus (checked under SpecWalks).        *)
(***************************************************************************)
\* fs::read_dir of the directory fails with an I/O error
Unlistable(dir) ==
    IF dir = <<>> THEN corpus.root = "unreadable" ELSE ~corpus.entries[dir].readable

\* C25: a list(query) call that has read a directory (the sessions root, a
\* year, a month or a day) whose listing fails has failed, whatever it had
\* collected; and the step of list(query) or find_by_id that comes to such a
\* directory ends the call with an error.
C25_ListingFailureFailsTheCall ==
    /\ [](spc = "done" /\ (\E i \in 1..Len(listed) : Unlistable(listed[i])) => sret = Err)
    /\ [][(spc = "start" /\ Unlistable(<<>>)) \/ (AtDir /\ Unlistable(Next1))
             => spc' = "done" /\ sret' = Err]_vars
    /\ [][(fpc = "start" /\ Unlistable(<<>>)) \/ (FindAtDir /\ Unlistable(FindNext1))
             => fpc' = "done" /\ fret' = Err]_vars

\* list(query) has failed on an unreadable directory with a record already
\* collected
C25_Witness ==
    /\ spc = "done" /\ sret = Err /\ items # <<>>
    /\ listed # <<>> /\ Unlistable(listed[Len(listed)])

\* Opening or reading the log file fails with an I/O error
Unreadable(p) == ~Session(p).ok

\* C26: a list(query) call that has opened a log file whose opening or
\* reading fails has failed, and so has a find_by_id call; the step that
\* comes to such a file ends the call with an error.
C26_FileErrorFailsTheCall ==
    /\ [](spc = "done" /\ (\E i \in 1..Len(opened) : Unreadable(opened[i])) => sret = Err)
    /\ [](fpc = "done" /\ (\E i \in 1..Len(fopened) : Unreadable(fopened[i])) => fret = Err)
    /\ [][AtFile /\ ~limit_reached(Len(items), limit) /\ Unreadable(Next1)
             => spc' = "done" /\ sret' = Err]_vars
    /\ [][FindAtFile /\ Unreadable(FindNext1) => fpc' = "done" /\ fret' = Err]_vars

\* What the code does with such a file: the walk goes on to the next file
\* and the call returns Ok
C26_FileErrorIsSkipped ==
    /\ [][AtFile /\ ~limit_reached(Len(items), limit) /\ Unreadable(Next1)
             => spc' = "loop" /\ items' = items /\ stack' = Advance]_vars
    /\ [][FindAtFile /\ Unreadable(FindNext1)
             => fpc' = "loop" /\ fstack' = FindAdvance]_vars

\* The name is ASCII digits only, two or four of them
DateNamed(name) == Len(name) \in {2, 4} /\ \A i \in 1..Len(name) : name[i] \in 48..57

\* The name starts with the session-log prefix and ends with the extension
LogNamed(name) == name # <<>> /\ name[1] = RolloutPrefix /\ name[Len(name)] = JsonlSuffix

\* A directory of date-named directories, year, month and day
DatePath(dir) == Len(dir) <= 3 /\ \A i \in 1..Len(dir) : DateNamed(dir[i])

\* A log-named file in a directory of date-named directories
LogPath(p) == Len(p) = 4 /\ DatePath(SubSeq(p, 1, 3)) /\ LogNamed(p[4])

\* C27: list(query) and find_by_id read no directory that is, or lies
\* beneath, a directory not named by two or four ASCII digits, open no file
\* beneath one and no file not named rollout-*.jsonl, and return no record of
\* such a file; and neither call fails unless the listing of a date-named
\* directory, or of the root, fails.
C27_StrayNamesAreSkipped ==
    /\ \A i \in 1..Len(listed) : DatePath(listed[i])
    /\ \A i \in 1..Len(opened) : LogPath(opened[i])
    /\ \A i \in 1..Len(fopened) : LogPath(fopened[i])
    /\ \A i \in 1..Len(items) : LogPath(items[i].path)
    /\ fpc = "done" /\ fret.ok /\ fret.val # None => LogPath(fret.val[1].path)
    /\ spc = "done" /\ sret = Err => listed # <<>> /\ Unlistable(listed[Len(listed)])
    /\ fpc = "done" /\ fret = Err =>
          \/ Unlistable(<<>>)
          \/ \E d \in DOMAIN corpus.entries :
                corpus.entries[d].type = "dir" /\ DatePath(d) /\ Unlistable(d)

\* list(query) has returned records from a corpus holding log files beneath
\* a month and a year not named as dates, and files not named as logs
C27_Witness ==
    /\ spc = "done" /\ sret.ok /\ items # <<>>
    /\ \E p \in DOMAIN corpus.entries :
          Len(p) = 4 /\ ~DatePath(SubSeq(p, 1, 3)) /\ LogNamed(p[4])
    /\ \E p \in DOMAIN corpus.entries :
          Len(p) = 4 /\ DatePath(SubSeq(p, 1, 3)) /\ ~LogNamed(p[4])

\* C28: with no sessions root directory, list(query) returns the empty list
\* and find_by_id returns nothing, both without an error and without reading
\* anything, whatever the query kind, the limit and the id.
C28_MissingRootYieldsNothing ==
    corpus.root = "missing" =>
        /\ spc = "done" => sret = Ok(<<>>)
        /\ fpc = "done" => fret = Ok(None)
        /\ listed = <<>> /\ opened = <<>> /\ fopened = <<>>
        /\ spc \in {"idle", "start", "done"} /\ fpc \in {"idle", "start", "done"}

\* list(query) has returned for a ForRepoRoot query of limit 2 with no root
C28_Witness ==
    /\ corpus.root = "missing"
    /\ spc = "done" /\ filter.kind = "ForRepoRoot" /\ limit = 2

(***************************************************************************)
(* Claims about the quick actions (checked under SpecQuick).               *)
(***************************************************************************)
\* scored is in descending order of score
SortedByScore == \A i \in 1..(Len(scored) - 1) : scored[i][1] >= scored[i + 1][1]

\* The condition of C24 for selecting the top candidate without asking
AutoSelects == Len(scored) = 1 \/ scored[1][1] - scored[2][1] >= 25

\* C24: once the candidates are sorted by descending score, the top one is
\* returned without a prompt exactly when it is the only candidate or its
\* score is at least 25 above the second's; otherwise nothing is returned
\* before a prompt, and the prompt offers the first 12 targets, or the first
\* 20 sessions, of the sorted candidates in their order and no other.
C24_ConfidentPickOrTopN ==
    qpc \in {"choose", "prompt", "done"} /\ scored # <<>> =>
        /\ SortedByScore
        /\ qpc # "choose" /\ AutoSelects =>
              options = None /\ qret = Ok(scored[1][2])
        /\ qpc # "choose" /\ ~AutoSelects =>
              /\ options # None
              /\ Len(options[1]) = Min(Len(scored), IF qkind = "target" THEN 12 ELSE 20)
              /\ \A i \in 1..Len(options[1]) : options[1][i] = scored[i][2]
              /\ qret.ok => \E i \in 1..Len(options[1]) : qret.val = options[1][i]

\* Sessions 21 in number, the best two 10 apart, are cut to the 20 offered
C24_Witness ==
    /\ qpc = "prompt" /\ qkind = "session"
    /\ Len(scored) = 21 /\ scored[1][1] = 100 /\ scored[2][1] = 90
    /\ Len(options[1]) = 20

(***************************************************************************)
(* Claims about target gathering (checked under SpecGather).               *)
(***************************************************************************)
\* The path is a configured path that is a directory
Explicit(path) ==
    path \in disk.dirs /\ \E i \in 1..Len(gcfg.paths) : gcfg.paths[i] = path

\* The path is a git repository right under a configured root, neither
\* hidden nor a build directory
Discovered(path) ==
    /\ path \in disk.dirs /\ path \in disk.repos
    /\ path[Len(path)] \notin {".h", "target"}
    /\ \E i \in 1..Len(gcfg.roots) :
          /\ gcfg.roots[i] \in disk.dirs
          /\ SubSeq(path, 1, Len(path) - 1) = gcfg.roots[i]

\* The scanned sessions whose inferred repository root is the path
SessionsOf(path) ==
    IF gcfg.from_sessions /\ scanned.ok
    THEN {i \in 1..Len(scanned.val) :
            infer_target_path_from_session_cwd(disk, scanned.val[i].cwd) = Some(path)}
    ELSE {}

KindByPrecedence(path) ==
    IF Explicit(path) THEN "ExplicitPath"
    ELSE IF Discovered(path) THEN "RootChildGitRepo"
    ELSE "SessionHistory"

\* C29: the targets gather_targets returns have pairwise distinct paths, and
\* the kind of each is that of the first source holding its path, in the
\* order configured path, git repository under a root, session history; and
\* no step of the gathering changes the kind of a target already registered.
C29_OneTargetPerPathFirstKindWins ==
    /\ [](gpc = "done" /\ gret.ok =>
            /\ \A i, j \in 1..Len(gret.val) :
                  gret.val[i].path = gret.val[j].path => i = j
            /\ \A i \in 1..Len(gret.val) :
                  /\ gret.val[i].kind = KindByPrecedence(gret.val[i].path)
                  /\ Explicit(gret.val[i].path) \/ Discovered(gret.val[i].path)
                     \/ SessionsOf(gret.val[i].path) # {})
    /\ [][\A q \in DOMAIN map :
             q \in DOMAIN map' /\ map'[q].path = q /\ map'[q].kind = map[q].kind]_vars

\* Returned: a configured path that is also a repository under a root and the
\* root of a session, and a repository under a root that is also the root of
\* a session
C29_Witness ==
    /\ gpc = "done" /\ gret.ok
    /\ Explicit(RepoA) /\ Discovered(RepoA) /\ SessionsOf(RepoA) # {}
    /\ ~Explicit(RepoB) /\ Discovered(RepoB) /\ SessionsOf(RepoB) # {}
    /\ \E i, j \in 1..Len(gret.val) :
          /\ gret.val[i].path = RepoA /\ gret.val[i].kind = "ExplicitPath"
          /\ gret.val[j].path = RepoB /\ gret.val[j].kind = "RootChildGitRepo"

\* The created_at of the sessions of the path that have one
StampsOf(path) ==
    {scanned.val[i].created_at[1] : i \in {j \in SessionsOf(path) : scanned.val[j].created_at # None}}

\* C30: every target returned whose path is the inferred repository root of
\* a scanned session has as last_session_at the greatest created_at of those
\* sessions, none only if none of them has one, and as last_session_summary
\* the summary of one of those sessions that has that created_at.
C30_LastSessionIsTheNewest ==
    gpc = "done" /\ gret.ok =>
        \A k \in 1..Len(gret.val) :
            LET t == gret.val[k]
            IN  SessionsOf(t.path) # {} =>
                  /\ t.last_session_at =
                        (IF StampsOf(t.path) = {} THEN None
                         ELSE Some(CHOOSE m \in StampsOf(t.path) :
                                      \A n \in StampsOf(t.path) : n <= m))
                  /\ \E i \in SessionsOf(t.path) :
                        /\ scanned.val[i].created_at = t.last_session_at
                        /\ scanned.val[i].summary = t.last_session_summary

\* A configured target has the created_at and summary of the first of its
\* three sessions, the newest; an older one and one without created_at
\* came after it
C30_Witness ==
    /\ gpc = "done" /\ gret.ok /\ Explicit(RepoA)
    /\ Len(scanned.val) = 3 /\ SessionsOf(RepoA) = {1, 2, 3}
    /\ scanned.val[1].created_at = Some(2) /\ scanned.val[1].summary = None
    /\ scanned.val[2].created_at = Some(1) /\ scanned.val[2].summary = Some("x")
    /\ scanned.val[3].created_at = None
    /\ \E k \in 1..Len(gret.val) :
          /\ gret.val[k].path = RepoA
          /\ gret.val[k].last_session_at = Some(2)
          /\ gret.val[k].last_session_summary = None

(***************************************************************************)
(* Claims about the summary of a record (checked under SpecSummary).       *)
(***************************************************************************)
\* read_session_meta returned a record with a summary
HasSummary == rpc = "done" /\ ret.ok /\ ret.val # None /\ ret.val[1].summary # None

LineBreaks == {"LF", "CR"}

\* sm is the first non-blank line of text u, trimmed: it starts at the first
\* character of u that is no whitespace, holds no line break, ends at a
\* character that is no whitespace, and only blanks follow it on its line
FirstLineTrimmed(u, sm) ==
    \E i \in 1..Len(u) : \E j \in i..Len(u) :
        /\ sm = SubSeq(u, i, j)
        /\ \A k \in 1..(i - 1) : u[k] \in WS
        /\ u[i] \notin WS /\ u[j] \notin WS
        /\ \A k \in i..j : u[k] \notin LineBreaks
        /\ \E e \in (j + 1)..(Len(u) + 1) :
              /\ \A k \in (j + 1)..(e - 1) : u[k] \in WS \ LineBreaks
              /\ e = Len(u) + 1 \/ u[e] \in LineBreaks

\* C31: the summary of a record is the first non-blank line, trimmed, of the
\* chosen user text with its tabs replaced by spaces and CRLF and CR taken as
\* line breaks; it is not empty, holds no tab, CR or LF, neither starts nor
\* ends with whitespace, and normalize_summary leaves it as it is.
C31_SummaryIsNormalized ==
    HasSummary =>
        LET sm == ret.val[1].summary[1]
            chosen == locals.best_user_text[1]
        IN  /\ FirstLineTrimmed(replace_char(chosen, "TAB", "SP"), sm)
            /\ sm # <<>>
            /\ \A k \in 1..Len(sm) : sm[k] \notin {"TAB", "CR", "LF"}
            /\ sm[1] \notin WS /\ sm[Len(sm)] \notin WS
            /\ normalize_summary(sm) = sm

\* A text with a tab inside its first line, then a CR and more text: the
\* summary is the first line with a space for the tab
C31_Witness ==
    /\ HasSummary
    /\ locals.best_user_text[1] = <<"a", "TAB", "a", "CR", "a">>
    /\ ret.val[1].summary[1] = <<"a", "SP", "a">>

(***************************************************************************)
(* Claims about the frames (checked under SpecFrames).                     *)
(***************************************************************************)
\* C34: every frame rendered, in every view, is that of the view's list and
\* cursor; the rows it draws are those of the window [start, end), at most
\* max(rows - 5, 1) of them and all rows of the list; and if the cursor is a
\* row of the list, it is among them and is the one highlighted.
C34_CursorRowInsideWindow ==
    frame # None =>
        LET f == frame[1]
        IN  /\ upc = "poll" => f.cursor = Cursor /\ f.len = LastRow + 1
            /\ f.drawn = {i \in 0..(f.len - 1) : f.start <= i /\ i < f.end}
            /\ Cardinality(f.drawn) <= (IF f.rows - 5 > 1 THEN f.rows - 5 ELSE 1)
            /\ f.end <= f.len
            /\ f.cursor < f.len => f.cursor \in f.drawn /\ f.highlighted = {f.cursor}

\* A frame whose window leaves out rows above and below: the cursor's row is
\* drawn
C34_Witness ==
    /\ frame # None /\ upc = "poll"
    /\ frame[1].start > 0 /\ frame[1].end < frame[1].len
    /\ frame[1].cursor \in frame[1].drawn

(***************************************************************************)
(* Claims about the drill-down (checked under SpecDrill).                  *)
(***************************************************************************)
\* The nearest repository root of a path: the longest of its prefixes that
\* holds a .git entry, if any
NearestRoot(p) ==
    LET roots == {n \in 1..Len(p) : SubSeq(p, 1, n) \in env.markers}
    IN  IF roots = {} THEN None
        ELSE Some(SubSeq(p, 1, CHOOSE n \in roots : \A m \in roots : m <= n))

\* The session belongs to the target
BelongsTo(t, s) ==
    IF t.path \in env.markers THEN NearestRoot(s.cwd) = Some(t.path)
    ELSE SubSeq(s.cwd, 1, Min(Len(s.cwd), Len(t.path))) = t.path

\* The positions in sessions_all of the sessions that belong to the target
Belonging(t) == {i \in 1..Len(sessions_all) : BelongsTo(t, sessions_all[i])}

\* The k-th smallest element of a set of numbers
Kth(S, k) == CHOOSE i \in S : Cardinality({j \in S : j <= i}) = k

\* C35: the sessions of a drill-down are, in the order of the all-sessions
\* list, the first of its sessions that belong to the target, as many as
\* the per-project limit allows: those whose nearest repository root is the
\* target path when that path is a repository root, else those whose cwd
\* lies under it.
C35_DrillDownListsFirstSessionsOfTarget ==
    view.kind = "ProjectSessions" =>
        LET t == view.target[1]
            n == Min(per_project_limit, Cardinality(Belonging(t)))
        IN  /\ Len(view.sessions) = n
            /\ \A k \in 1..n : view.sessions[k] = sessions_all[Kth(Belonging(t), k)]

\* The drill-down of the repository /w/a that holds the repository
\* /w/a/sub, the limit not reached: the session run in /w/a/sub, under the
\* target path, is not listed
C35_Witness ==
    /\ view.kind = "ProjectSessions" /\ view.target = Some(TargetA)
    /\ env = NestedEnv /\ per_project_limit = MaxPerProject
    /\ view.sessions = <<SessionA1>>

(***************************************************************************)
(* Claims about the filtered lists (checked under SpecPicker).             *)
(***************************************************************************)
\* The texts the matcher is given for the items of the current view
ViewHays ==
    CASE view.kind = "Projects" -> [i \in 1..Len(targets) |-> target_string(targets[i])]
      [] view.kind \in SessionTabs ->
            [i \in 1..Len(tab_items(view.kind)) |-> session_hay(tab_items(view.kind)[i])]
      [] view.kind = "ProjectSessions" ->
            [i \in 1..Len(view.sessions) |-> session_hay(view.sessions[i])]

\* The filter text of the current view
ViewFilter ==
    CASE view.kind = "Projects" -> project_filter
      [] view.kind \in SessionTabs -> sessions_filter
      [] view.kind = "ProjectSessions" -> project_sessions_filter

\* The score the matcher gives item i (from 0) of the current view for the
\* filter text without the blanks around it
ViewScore(i) == fuzzy_match(ViewHays[i + 1], trim(ViewFilter))

\* C36: the filtered list of the current view, whatever its filter text,
\* holds indices of the view's list, none twice, those of exactly the items
\* the matcher scores, by descending score, items of equal score in the
\* order of the list.
C36_FilteredIsScoredSortedStable ==
    LET n == Len(ViewHays)
        r == Filtered
    IN  /\ \A k \in 1..Len(r) : r[k] \in 0..(n - 1)
        /\ \A k, l \in 1..Len(r) : r[k] = r[l] => k = l
        /\ {r[k] : k \in 1..Len(r)} = {i \in 0..(n - 1) : ViewScore(i) # None}
        /\ \A k, l \in 1..Len(r) :
              k < l => \/ ViewScore(r[k])[1] > ViewScore(r[l])[1]
                       \/ ViewScore(r[k])[1] = ViewScore(r[l])[1] /\ r[k] < r[l]

\* The filter "p" over three targets: the second has no score, the third
\* scores higher than the first and comes before it
C36_Witness ==
    /\ upc = "poll" /\ view.kind = "Projects"
    /\ targets = <<TargetW, TargetB, TargetA>>
    /\ project_filter = <<"p">>
    /\ Filtered = <<2, 0>>
    /\ ViewScore(2)[1] > ViewScore(0)[1] /\ ViewScore(1) = None

(***************************************************************************)
(* Claims about the picks (checked under SpecDrill).                       *)
(***************************************************************************)
\* The items of a sequence
Items(list) == {list[i] : i \in 1..Len(list)}

\* The pick, if any, is Quit, OpenConfig, New of a target given or Resume of
\* a session given
PickIsSupplied ==
    pick # None =>
        CASE pick[1].kind = "New" -> pick[1].item[1] \in Items(targets)
          [] pick[1].kind = "Resume" ->
                pick[1].item[1] \in Items(sessions_all) \cup Items(sessions_scoped)
          [] OTHER -> pick[1].item = None

\* The step handles Enter, or n in the Projects tab
ActivatingKeyStep ==
    /\ upc = "poll" /\ ev' # None
    /\ ev'[1].code = "Enter" \/ (view.kind = "Projects" /\ is_char(ev'[1], "n", "NONE"))

\* The step returns no pick and stays in the view
Inert == pick' = None /\ upc' = "render" /\ view' = view

\* C37 (as stated): every pick returned is New of a target given or Resume
\* of a session given, and Enter, or n in Projects, on a view whose filtered
\* list is empty returns no pick and stays in the view.
C37_EnterOnEmptyListIsInert ==
    /\ []PickIsSupplied
    /\ [][ActivatingKeyStep /\ Filtered = <<>> => Inert]_vars

\* C37 (amended): every pick returned is New of a target given or Resume of
\* a session given, and Enter, or n in Projects, on a tab whose filtered list
\* is empty returns no pick and stays in the tab; in the drill-down Enter on
\* an empty filtered list returns New of the view's target.
C37_EnterOnEmptyTabIsInert ==
    /\ []PickIsSupplied
    /\ [][ActivatingKeyStep /\ Filtered = <<>> =>
            IF view.kind = "ProjectSessions"
            THEN pick' = Some(New(view.target[1])) /\ upc' = "done"
            ELSE Inert]_vars

\* Enter was handled on the Projects tab with a filter no target matches:
\* the picker goes on in the tab
C37_Witness ==
    /\ upc = "render" /\ ev = Some(Key("Enter")) /\ pick = None
    /\ view.kind = "Projects" /\ project_filter # <<>> /\ Filtered = <<>>

(***************************************************************************)
(* Claims about Esc (checked under SpecPicker).                            *)
(***************************************************************************)
\* The step handles Esc
EscStep == upc = "poll" /\ ev' # None /\ ev'[1].code = "Esc"

\* Esc presses that end the picker from the view, none other pressed
Level(v) ==
    CASE v.kind = "Projects" -> 1
      [] v.kind = "SessionsScoped" -> 2
      [] v.kind = "SessionsAll" -> 3
      [] v.kind = "ProjectSessions" -> 2

\* C38: Esc in the Projects tab ends the picker with Quit; in every other
\* view it returns nothing and shows the view one level down (SessionsAll
\* to SessionsScoped, SessionsScoped and the drill-down to Projects), so
\* three presses at most end the picker, and with Quit.
C38_EscUnwindsOneLevel ==
    [][EscStep =>
          IF view.kind = "Projects" THEN pick' = Some(Quit) /\ upc' = "done"
          ELSE /\ pick' = None /\ upc' = "render"
               /\ view' = TabView(IF view.kind = "SessionsAll" THEN "SessionsScoped"
                                  ELSE "Projects")
               /\ Level(view') = Level(view) - 1 /\ Level(view) <= 3]_vars

\* Esc was handled in SessionsAll: SessionsScoped is shown and the picker
\* goes on
C38_Witness ==
    /\ upc = "render" /\ ev = Some(Key("Esc")) /\ pick = None
    /\ view = TabView("SessionsScoped")

(***************************************************************************)
(* Claims about the ranking of the targets (checked under SpecGather).     *)
(***************************************************************************)
\* The label in lower case comes at or before the other in byte order
LabelAtOrBefore(a, b) ==
    ~lex_less(to_lowercase(NameBytes[b.label]), to_lowercase(NameBytes[a.label]))

\* C39: the list gather_targets returns holds the targets of the map, each
\* once; no target without last session comes before one with a last
\* session; those with one come by descending last_session_at; and those
\* without, or with equal last_session_at, by their labels in lower case.
C39_RankedByRecencyThenLabel ==
    gpc = "done" /\ gret.ok =>
        /\ Len(gret.val) = Cardinality(DOMAIN map)
        /\ \A q \in DOMAIN map : \E i \in 1..Len(gret.val) : gret.val[i] = map[q]
        /\ \A i, j \in 1..Len(gret.val) :
              i < j =>
                LET a == gret.val[i]
                    b == gret.val[j]
                IN  /\ a.last_session_at = None => b.last_session_at = None
                    /\ a.last_session_at # None /\ b.last_session_at # None =>
                          a.last_session_at[1] >= b.last_session_at[1]
                    /\ a.last_session_at = b.last_session_at => LabelAtOrBefore(a, b)

\* Returned: a before B, both with the same last session, then c without
\* any; the map holds B before a
C39_Witness ==
    /\ gpc = "done" /\ gret.ok /\ Len(gret.val) = 3
    /\ gret.val[1].path = RepoA /\ gret.val[1].last_session_at = Some(2)
    /\ gret.val[2].path = RepoB /\ gret.val[2].last_session_at = Some(2)
    /\ gret.val[3].path = PlainC /\ gret.val[3].last_session_at = None
    /\ into_values(map)[1].path = RepoB

====
